---- MODULE Spec2Model ----
(***************************************************************************)
(* OTPilot: the code extraction and validation pipeline                    *)
(* (src/services/otp-extractor.js, src/utils/validators.js).               *)
(*                                                                         *)
(* A JavaScript string is a sequence of one-character strings.  A          *)
(* JavaScript value is a record [k |-> typeof, s |-> characters]; s is the *)
(* string itself for a string and <<>> for null and undefined.             *)
(***************************************************************************)
EXTENDS Naturals, Sequences, FiniteSets, TLC

VARIABLES
    op,         \* the exported function being run, "idle" before a call
    pc,         \* the place the run has reached in it
    vin,        \* isValidOTP / getValidationFailureReason: the argument
    vok,        \* isValidOTP(vin)
    vreason,    \* getValidationFailureReason(vin), "null" for null
    pin,        \* processCode: the raw candidate
    pout,       \* processCode(pin)
    subject,    \* extractOTPFromEmail: the subject
    body,       \* extractOTPFromEmail: the body
    arg,        \* extractOTP: the argument
    src,        \* which argument extractOTP runs on: "text", "subject", "body"
    norm,       \* extractOTP: clean, the normalized text
    tier,       \* extractOTP: the tier being run, 1..7
    idx,        \* extractOTP: the pattern of the tier to match next
    tried,      \* extractOTP: the <<tier, pattern>> matched so far, in order
    ret,        \* the value extractOTP returned
    result,     \* the value the exported function returned
    calls,       \* extractOTPFromEmail: the arguments extractOTP was run on
    ntext,      \* cleanText: the argument
    nclean,     \* cleanText(ntext)
    ntwice,     \* cleanText(nclean)
    storage,    \* chrome.storage.local: <<>> while STATE_KEY is unset, else <<state>>
    alarm,      \* whether the 'checkOTP' alarm exists
    tasks,      \* the handler invocations of the service worker, in order of start
    now,        \* the clock Date.now() reads
    notified,   \* the OTP_FOUND messages sent, as <<message id, code>>
    hist        \* what has completed so far: logout, token expiry, last writes

(***************************************************************************)
(* Characters                                                              *)
(***************************************************************************)
Digits == {"0", "1", "2", "3", "4", "5", "6", "7", "8", "9"}

LowerLetters == <<"a", "b", "c", "d", "e", "f", "g", "h", "i", "j", "k", "l", "m", "n", "o", "p", "q", "r", "s", "t", "u", "v", "w", "x", "y", "z">>

UpperLetters == <<"A", "B", "C", "D", "E", "F", "G", "H", "I", "J", "K", "L", "M", "N", "O", "P", "Q", "R", "S", "T", "U", "V", "W", "X", "Y", "Z">>

LowerSet == {LowerLetters[i] : i \in 1..26}

UpperSet == {UpperLetters[i] : i \in 1..26}

\* U+00DF LATIN SMALL LETTER SHARP S, one UTF-16 code unit
SharpS == "U+00DF"

\* \s of a JavaScript regular expression (the members the model's inputs use)
WhiteSpace == {" ", "\t", "\n", "\r"}

\* the line terminators, which . does not match
LineTerminators == {"\n", "\r"}

IsDigit(c) == c \in Digits

IsLetter(c) == c \in LowerSet \/ c \in UpperSet

IsSpace(c) == c \in WhiteSpace

\* \w: [A-Za-z0-9_]
IsWord(c) == IsLetter(c) \/ IsDigit(c) \/ c = "_"

IsHex(c) == IsDigit(c) \/ c \in {"a", "b", "c", "d", "e", "f", "A", "B", "C", "D", "E", "F"}

IndexIn(seq, c) == CHOOSE i \in 1..Len(seq) : seq[i] = c

\* String.prototype.toUpperCase on one character: a sequence, because the
\* upper case of U+00DF is the two characters SS
UpperOfChar(c) ==
    IF c \in LowerSet THEN <<UpperLetters[IndexIn(LowerLetters, c)]>>
    ELSE IF c = SharpS THEN <<"S", "S">>
    ELSE <<c>>

\* String.prototype.toLowerCase on one character
LowerOfChar(c) ==
    IF c \in UpperSet THEN LowerLetters[IndexIn(UpperLetters, c)]
    ELSE c

RECURSIVE toUpperCase(_)
toUpperCase(s) ==
    IF s = <<>> THEN <<>> ELSE UpperOfChar(Head(s)) \o toUpperCase(Tail(s))

\* two characters equal under the i flag of a regular expression
SameFolded(a, b) == LowerOfChar(a) = LowerOfChar(b)

toLowerCase(s) == [i \in 1..Len(s) |-> LowerOfChar(s[i])]

\* s.replace(/[^class]/g, ''): the characters of s that Keep holds of
Filter(s, Keep(_)) == SelectSeq(s, Keep)

\* w occurs in s at position i (the characters i .. i+Len(w)-1)
At(s, i, w) ==
    /\ i >= 1
    /\ i + Len(w) - 1 <= Len(s)
    /\ \A j \in 1..Len(w) : s[i + j - 1] = w[j]

\* String.prototype.includes
Includes(s, w) == \E i \in 1..(Len(s) + 1) : At(s, i, w)

\* /^\d+$/
IsAllDigits(s) == Len(s) >= 1 /\ \A i \in 1..Len(s) : IsDigit(s[i])

(***************************************************************************)
(* JavaScript values                                                       *)
(***************************************************************************)
Str(s) == [k |-> "string", s |-> s]

Null == [k |-> "null", s |-> <<>>]

Undefined == [k |-> "undefined", s |-> <<>>]

\* a number, carried with its decimal digits
Num(s) == [k |-> "number", s |-> s]

\* !v for the values above (a number here is never 0 or NaN)
Falsy(v) == v.k \in {"null", "undefined"} \/ (v.k = "string" /\ v.s = <<>>)

(***************************************************************************)
(* src/utils/validators.js                                                 *)
(***************************************************************************)
SEQUENTIAL_PATTERNS == <<
    <<"0", "1", "2", "3">>, <<"1", "2", "3", "4">>, <<"2", "3", "4", "5">>, <<"3", "4", "5", "6">>, <<"4", "5", "6", "7">>, <<"5", "6", "7", "8">>, <<"6", "7", "8", "9">>,
    <<"9", "8", "7", "6">>, <<"8", "7", "6", "5">>, <<"7", "6", "5", "4">>, <<"6", "5", "4", "3">>, <<"5", "4", "3", "2">>, <<"4", "3", "2", "1">>, <<"3", "2", "1", "0">>,
    <<"0", "1", "2", "3", "4", "5">>, <<"1", "2", "3", "4", "5", "6">>, <<"2", "3", "4", "5", "6", "7">>, <<"3", "4", "5", "6", "7", "8">>, <<"4", "5", "6", "7", "8", "9">>,
    <<"9", "8", "7", "6", "5", "4">>, <<"8", "7", "6", "5", "4", "3">>, <<"7", "6", "5", "4", "3", "2">>, <<"6", "5", "4", "3", "2", "1">>, <<"5", "4", "3", "2", "1", "0">> >>

\* isSequential comparing the whole code with the listed runs
isSequential_WholeCode(code) ==
    \E p \in 1..Len(SEQUENTIAL_PATTERNS) : code = SEQUENTIAL_PATTERNS[p]

isSequential(code) ==
    \E p \in 1..Len(SEQUENTIAL_PATTERNS) : Includes(code, SEQUENTIAL_PATTERNS[p])

\* /^(.)\1+$/
isRepetitive(code) ==
    IF Len(code) < 2 THEN FALSE
    ELSE /\ code[1] \notin LineTerminators
         /\ \A i \in 2..Len(code) : code[i] = code[1]

\* 0[1-9]|1[0-2]
MonthAt(code, i) ==
    \/ code[i] = "0" /\ code[i + 1] \in (Digits \ {"0"})
    \/ code[i] = "1" /\ code[i + 1] \in {"0", "1", "2"}

\* 0[1-9]|[12]\d|3[01]
DayAt(code, i) ==
    \/ code[i] = "0" /\ code[i + 1] \in (Digits \ {"0"})
    \/ code[i] \in {"1", "2"} /\ IsDigit(code[i + 1])
    \/ code[i] = "3" /\ code[i + 1] \in {"0", "1"}

\* (19|20)\d{2}
CenturyYearAt(code, i) ==
    /\ \/ code[i] = "1" /\ code[i + 1] = "9"
       \/ code[i] = "2" /\ code[i + 1] = "0"
    /\ IsDigit(code[i + 2])
    /\ IsDigit(code[i + 3])

\* \d{2}
TwoDigitsAt(code, i) == IsDigit(code[i]) /\ IsDigit(code[i + 1])

\* isDatePattern with the month-first shapes only
isDatePattern_MonthFirst(code) ==
    IF Len(code) # 6 /\ Len(code) # 8 THEN FALSE
    ELSE IF Len(code) = 6 THEN MonthAt(code, 1) /\ DayAt(code, 3) /\ TwoDigitsAt(code, 5)
    ELSE MonthAt(code, 1) /\ DayAt(code, 3) /\ CenturyYearAt(code, 5)

isDatePattern(code) ==
    IF Len(code) # 6 /\ Len(code) # 8 THEN FALSE
    ELSE IF Len(code) = 6 THEN
        \/ MonthAt(code, 1) /\ DayAt(code, 3) /\ TwoDigitsAt(code, 5)     \* MMDDYY
        \/ DayAt(code, 1) /\ MonthAt(code, 3) /\ TwoDigitsAt(code, 5)     \* DDMMYY
        \/ TwoDigitsAt(code, 1) /\ MonthAt(code, 3) /\ DayAt(code, 5)     \* YYMMDD
    ELSE
        \/ MonthAt(code, 1) /\ DayAt(code, 3) /\ CenturyYearAt(code, 5)   \* MMDDYYYY
        \/ DayAt(code, 1) /\ MonthAt(code, 3) /\ CenturyYearAt(code, 5)   \* DDMMYYYY
        \/ CenturyYearAt(code, 1) /\ MonthAt(code, 5) /\ DayAt(code, 7)   \* YYYYMMDD

DigitValue(c) == IndexIn(<<"0", "1", "2", "3", "4", "5", "6", "7", "8", "9">>, c) - 1

\* the value of the digits s[1..n]
RECURSIVE DecimalValue(_, _)
DecimalValue(s, n) ==
    IF n = 0 THEN 0 ELSE 10 * DecimalValue(s, n - 1) + DigitValue(s[n])

\* the length of the run of digits of s that starts at position i
RECURSIVE DigitRun(_, _)
DigitRun(s, i) ==
    IF i > Len(s) \/ ~IsDigit(s[i]) THEN 0 ELSE 1 + DigitRun(s, i + 1)

NaN == 0 - 1

\* parseInt(code, 10) of a string with no leading white space or sign: the
\* value of its leading digits, NaN when it has none
parseInt(code) ==
    IF DigitRun(code, 1) = 0 THEN NaN ELSE DecimalValue(code, DigitRun(code, 1))

\* isYearPattern with the two ends of the range left out
isYearPattern_Exclusive(code) ==
    IF Len(code) # 4 THEN FALSE
    ELSE LET num == parseInt(code)
         IN  num # NaN /\ num > 1900 /\ num < 2100

isYearPattern(code) ==
    IF Len(code) # 4 THEN FALSE
    ELSE LET num == parseInt(code)
         IN  num # NaN /\ num >= 1900 /\ num <= 2100

\* /^0+$/
isAllZeros(code) == Len(code) >= 1 /\ \A i \in 1..Len(code) : code[i] = "0"

CSS_UNITS == <<
    <<"P", "X">>, <<"E", "M">>, <<"R", "E", "M">>, <<"P", "T">>, <<"V", "H">>, <<"V", "W">>,
    <<"C", "H">>, <<"E", "X">>, <<"C", "M">>, <<"M", "M">>, <<"I", "N">>, <<"P", "C">> >>

\* isCSSValue with the unit optional
isCSSValue_UnitOptional(code) ==
    LET n == DigitRun(code, 1)
    IN  /\ n >= 1
        /\ \/ Len(code) = n
           \/ \E u \in 1..Len(CSS_UNITS) :
                 /\ Len(code) = n + Len(CSS_UNITS[u])
                 /\ \A j \in 1..Len(CSS_UNITS[u]) :
                       SameFolded(code[n + j], CSS_UNITS[u][j])

\* /^\d+(PX|EM|REM|PT|VH|VW|CH|EX|CM|MM|IN|PC)$/i
isCSSValue(code) ==
    LET n == DigitRun(code, 1)
    IN  /\ n >= 1
        /\ \E u \in 1..Len(CSS_UNITS) :
              /\ Len(code) = n + Len(CSS_UNITS[u])
              /\ \A j \in 1..Len(CSS_UNITS[u]) :
                    SameFolded(code[n + j], CSS_UNITS[u][j])

commonColors == {
    <<"0", "0", "0", "0", "0", "0">>, <<"F", "F", "F", "F", "F", "F">>, <<"3", "3", "3", "3", "3", "3">>, <<"6", "6", "6", "6", "6", "6">>, <<"9", "9", "9", "9", "9", "9">>, <<"C", "C", "C", "C", "C", "C">>,
    <<"F", "F", "0", "0", "0", "0">>, <<"0", "0", "F", "F", "0", "0">>, <<"0", "0", "0", "0", "F", "F">>, <<"F", "F", "F", "F", "0", "0">>, <<"F", "F", "0", "0", "F", "F">>, <<"0", "0", "F", "F", "F", "F">>,
    <<"8", "0", "8", "0", "8", "0">>, <<"C", "0", "C", "0", "C", "0">>, <<"8", "0", "0", "0", "0", "0">>, <<"0", "0", "8", "0", "0", "0">>, <<"0", "0", "0", "0", "8", "0">>, <<"8", "0", "0", "0", "8", "0">> }

\* isLikelyColorCode taking every 6 hex digits for a colour
isLikelyColorCode_AnyHex(code) == Len(code) = 6 /\ \A i \in 1..6 : IsHex(code[i])

isLikelyColorCode(code) ==
    IF Len(code) # 6 THEN FALSE
    ELSE IF ~(\A i \in 1..6 : IsHex(code[i])) THEN FALSE
    \* /^([0-9A-F]{2})\1\1$/i
    ELSE IF /\ SameFolded(code[3], code[1]) /\ SameFolded(code[4], code[2])
            /\ SameFolded(code[5], code[1]) /\ SameFolded(code[6], code[2]) THEN TRUE
    \* /^([0-9A-F])([0-9A-F])\1\2\1\2$/i
    ELSE IF /\ SameFolded(code[3], code[1]) /\ SameFolded(code[4], code[2])
            /\ SameFolded(code[5], code[1]) /\ SameFolded(code[6], code[2]) THEN TRUE
    ELSE IF toUpperCase(code) \in commonColors THEN TRUE
    ELSE FALSE

isValidAlphanumeric(code) ==
    LET hasLetters == \E i \in 1..Len(code) : IsLetter(code[i])
        hasNumbers == \E i \in 1..Len(code) : IsDigit(code[i])
    IN  IF hasLetters /\ ~hasNumbers THEN FALSE ELSE TRUE

\* [-\s]
IsDashOrSpace(c) == c = "-" \/ IsSpace(c)

NotDashOrSpace(c) == ~IsDashOrSpace(c)

\* code.replace(/[-\s]/g, '').toUpperCase()
CleanedCode(s) == toUpperCase(Filter(s, NotDashOrSpace))

\* /^[A-Z0-9]+$/
IsUpperAlnum(s) ==
    Len(s) >= 1 /\ \A i \in 1..Len(s) : (s[i] \in UpperSet \/ IsDigit(s[i]))

\* isValidOTP without the typeof test of its guard
isValidOTP_NoTypeTest(code) ==
    IF Falsy(code) THEN FALSE
    ELSE LET cleaned == CleanedCode(code.s)
         IN  /\ Len(cleaned) >= 4
             /\ Len(cleaned) <= 8
             /\ IsUpperAlnum(cleaned)
             /\ ~isAllZeros(cleaned)
             /\ ~isSequential(cleaned)
             /\ ~isRepetitive(cleaned)
             /\ ~(IsAllDigits(cleaned) /\ isDatePattern(cleaned))
             /\ ~(IsAllDigits(cleaned) /\ isYearPattern(cleaned))
             /\ isValidAlphanumeric(cleaned)
             /\ ~isCSSValue(cleaned)
             /\ ~isLikelyColorCode(cleaned)

\* isValidOTP with the colour rule left out
isValidOTP_NoColorRule(code) ==
    IF Falsy(code) \/ code.k # "string" THEN FALSE
    ELSE LET cleaned == CleanedCode(code.s)
         IN  IF Len(cleaned) < 4 \/ Len(cleaned) > 8 THEN FALSE
             ELSE IF ~IsUpperAlnum(cleaned) THEN FALSE
             ELSE IF isAllZeros(cleaned) THEN FALSE
             ELSE IF isSequential(cleaned) THEN FALSE
             ELSE IF isRepetitive(cleaned) THEN FALSE
             ELSE IF IsAllDigits(cleaned) /\ isDatePattern(cleaned) THEN FALSE
             ELSE IF IsAllDigits(cleaned) /\ isYearPattern(cleaned) THEN FALSE
             ELSE IF ~isValidAlphanumeric(cleaned) THEN FALSE
             ELSE IF isCSSValue(cleaned) THEN FALSE
             ELSE TRUE

isValidOTP(code) ==
    IF Falsy(code) \/ code.k # "string" THEN FALSE
    ELSE LET cleaned == CleanedCode(code.s)
         IN  IF Len(cleaned) < 4 \/ Len(cleaned) > 8 THEN FALSE
             ELSE IF ~IsUpperAlnum(cleaned) THEN FALSE
             ELSE IF isAllZeros(cleaned) THEN FALSE
             ELSE IF isSequential(cleaned) THEN FALSE
             ELSE IF isRepetitive(cleaned) THEN FALSE
             ELSE IF IsAllDigits(cleaned) /\ isDatePattern(cleaned) THEN FALSE
             ELSE IF IsAllDigits(cleaned) /\ isYearPattern(cleaned) THEN FALSE
             ELSE IF ~isValidAlphanumeric(cleaned) THEN FALSE
             ELSE IF isCSSValue(cleaned) THEN FALSE
             ELSE IF isLikelyColorCode(cleaned) THEN FALSE
             ELSE TRUE

\* getValidationFailureReason with the repetitive rule tested before the
\* all-zeros and sequential rules
getValidationFailureReason_RepetitiveFirst(code) ==
    IF Falsy(code) \/ code.k # "string" THEN "Invalid input"
    ELSE LET cleaned == CleanedCode(code.s)
         IN  IF Len(cleaned) < 4 THEN "Too short (min 4 chars)"
             ELSE IF Len(cleaned) > 8 THEN "Too long (max 8 chars)"
             ELSE IF ~IsUpperAlnum(cleaned) THEN "Not alphanumeric"
             ELSE IF isRepetitive(cleaned) THEN "Repetitive pattern"
             ELSE IF isAllZeros(cleaned) THEN "All zeros"
             ELSE IF isSequential(cleaned) THEN "Sequential pattern"
             ELSE IF IsAllDigits(cleaned) /\ isDatePattern(cleaned) THEN "Date pattern"
             ELSE IF IsAllDigits(cleaned) /\ isYearPattern(cleaned) THEN "Year pattern"
             ELSE IF ~isValidAlphanumeric(cleaned) THEN "Invalid alphanumeric mix"
             ELSE IF isCSSValue(cleaned) THEN "CSS value"
             ELSE IF isLikelyColorCode(cleaned) THEN "Likely color code"
             ELSE "null"

getValidationFailureReason(code) ==
    IF Falsy(code) \/ code.k # "string" THEN "Invalid input"
    ELSE LET cleaned == CleanedCode(code.s)
         IN  IF Len(cleaned) < 4 THEN "Too short (min 4 chars)"
             ELSE IF Len(cleaned) > 8 THEN "Too long (max 8 chars)"
             ELSE IF ~IsUpperAlnum(cleaned) THEN "Not alphanumeric"
             ELSE IF isAllZeros(cleaned) THEN "All zeros"
             ELSE IF isSequential(cleaned) THEN "Sequential pattern"
             ELSE IF isRepetitive(cleaned) THEN "Repetitive pattern"
             ELSE IF IsAllDigits(cleaned) /\ isDatePattern(cleaned) THEN "Date pattern"
             ELSE IF IsAllDigits(cleaned) /\ isYearPattern(cleaned) THEN "Year pattern"
             ELSE IF ~isValidAlphanumeric(cleaned) THEN "Invalid alphanumeric mix"
             ELSE IF isCSSValue(cleaned) THEN "CSS value"
             ELSE IF isLikelyColorCode(cleaned) THEN "Likely color code"
             ELSE "null"

(***************************************************************************)
(* src/services/otp-extractor.js: the candidate resolver                   *)
(***************************************************************************)
\* [a-zA-Z0-9]
IsAlnum(c) == IsLetter(c) \/ IsDigit(c)

\* the value null
NoCode == <<"null">>

\* processCode without the calls of isValidOTP
processCode_Unvalidated(codeString) ==
    IF codeString = <<>> THEN NoCode
    ELSE LET cleaned == Filter(codeString, IsAlnum)
             numericOnly == Filter(codeString, IsDigit)
         IN  IF Len(numericOnly) >= 4 /\ Len(numericOnly) <= 8
             THEN numericOnly
             ELSE IF Len(cleaned) >= 4 /\ Len(cleaned) <= 8
             THEN toUpperCase(cleaned)
             ELSE NoCode

\* processCode with the alphanumeric reading tried before the numeric one
processCode_AlnumFirst(codeString) ==
    IF codeString = <<>> THEN NoCode
    ELSE LET cleaned == Filter(codeString, IsAlnum)
             numericOnly == Filter(codeString, IsDigit)
         IN  IF Len(cleaned) >= 4 /\ Len(cleaned) <= 8 /\ isValidOTP(Str(cleaned))
             THEN toUpperCase(cleaned)
             ELSE IF Len(numericOnly) >= 4 /\ Len(numericOnly) <= 8 /\ isValidOTP(Str(numericOnly))
             THEN numericOnly
             ELSE NoCode

\* processCode(codeString) for a string: the code returned, NoCode for null
processCode(codeString) ==
    IF codeString = <<>> THEN NoCode
    ELSE LET cleaned == Filter(codeString, IsAlnum)
             numericOnly == Filter(codeString, IsDigit)
         IN  IF Len(numericOnly) >= 4 /\ Len(numericOnly) <= 8 /\ isValidOTP(Str(numericOnly))
             THEN numericOnly
             ELSE IF Len(cleaned) >= 4 /\ Len(cleaned) <= 8 /\ isValidOTP(Str(cleaned))
             THEN toUpperCase(cleaned)
             ELSE NoCode

(***************************************************************************)
(* src/services/otp-extractor.js: the normalizer and the context gate      *)
(***************************************************************************)
Min(a, b) == IF a <= b THEN a ELSE b

Least(S) == CHOOSE x \in S : \A y \in S : x <= y

Greatest(S) == CHOOSE x \in S : \A y \in S : x >= y

\* w, given in lower case, occurs in s at position i under the i flag
AtFolded(s, i, w) ==
    /\ i >= 1
    /\ i + Len(w) - 1 <= Len(s)
    /\ \A j \in 1..Len(w) : LowerOfChar(s[i + j - 1]) = w[j]

\* the length of the run of characters other than > that starts at position i
RECURSIVE NotGtRun(_, _)
NotGtRun(s, i) ==
    IF i > Len(s) \/ s[i] = ">" THEN 0 ELSE 1 + NotGtRun(s, i + 1)

\* /<\/?[^>]+(>|$)/ at position i: the length of the match, 0 for none.  [^>]+
\* takes every character up to the next > or the end, / among them.
TagLen(s, i) ==
    IF i > Len(s) \/ s[i] # "<" THEN 0
    ELSE LET n == NotGtRun(s, i + 1)
         IN  IF n = 0 THEN 0
             ELSE IF i + n + 1 <= Len(s) THEN n + 2 ELSE n + 1

\* /&nbsp;/i at position i
NbspLen(s, i) == IF AtFolded(s, i, <<"&", "n", "b", "s", "p", ";">>) THEN 6 ELSE 0

\* /&#\d+;/ at position i
EntityLen(s, i) ==
    IF At(s, i, <<"&", "#">>) /\ DigitRun(s, i + 2) >= 1
          /\ At(s, i + 2 + DigitRun(s, i + 2), <<";">>)
    THEN DigitRun(s, i + 2) + 3
    ELSE 0

\* the length of the run of white space that starts at position i
RECURSIVE SpaceRun(_, _)
SpaceRun(s, i) ==
    IF i > Len(s) \/ ~IsSpace(s[i]) THEN 0 ELSE 1 + SpaceRun(s, i + 1)

\* /\s+/ at position i
SpacesLen(s, i) == SpaceRun(s, i)

\* s.replace(/re/g, ' ') from position i on, MatchLen(s, i) the length of the
\* match of re at i
RECURSIVE ReplaceTags(_, _)
ReplaceTags(s, i) ==
    IF i > Len(s) THEN <<>>
    ELSE LET j == Least({k \in i..(Len(s) + 1) : k > Len(s) \/ TagLen(s, k) > 0})
         IN  IF j > Len(s) THEN SubSeq(s, i, Len(s))
             ELSE SubSeq(s, i, j - 1) \o <<" ">> \o ReplaceTags(s, j + TagLen(s, j))

RECURSIVE ReplaceNbsp(_, _)
ReplaceNbsp(s, i) ==
    IF i > Len(s) THEN <<>>
    ELSE LET j == Least({k \in i..(Len(s) + 1) : k > Len(s) \/ NbspLen(s, k) > 0})
         IN  IF j > Len(s) THEN SubSeq(s, i, Len(s))
             ELSE SubSeq(s, i, j - 1) \o <<" ">> \o ReplaceNbsp(s, j + NbspLen(s, j))

RECURSIVE ReplaceEntities(_, _)
ReplaceEntities(s, i) ==
    IF i > Len(s) THEN <<>>
    ELSE LET j == Least({k \in i..(Len(s) + 1) : k > Len(s) \/ EntityLen(s, k) > 0})
         IN  IF j > Len(s) THEN SubSeq(s, i, Len(s))
             ELSE SubSeq(s, i, j - 1) \o <<" ">> \o ReplaceEntities(s, j + EntityLen(s, j))

RECURSIVE ReplaceSpaces(_, _)
ReplaceSpaces(s, i) ==
    IF i > Len(s) THEN <<>>
    ELSE LET j == Least({k \in i..(Len(s) + 1) : k > Len(s) \/ SpacesLen(s, k) > 0})
         IN  IF j > Len(s) THEN SubSeq(s, i, Len(s))
             ELSE SubSeq(s, i, j - 1) \o <<" ">> \o ReplaceSpaces(s, j + SpacesLen(s, j))

\* String.prototype.trim
RECURSIVE TrimEnd(_)
TrimEnd(s) ==
    IF s # <<>> /\ IsSpace(s[Len(s)]) THEN TrimEnd(SubSeq(s, 1, Len(s) - 1)) ELSE s

trim(s) == TrimEnd(SubSeq(s, SpaceRun(s, 1) + 1, Len(s)))

\* cleanText with the tags replaced last, after the white space is collapsed
cleanText_TagsLast(text) ==
    trim(ReplaceTags(ReplaceSpaces(ReplaceEntities(ReplaceNbsp(text, 1), 1), 1), 1))

\* cleanText without the final trim
cleanText_NoTrim(text) ==
    ReplaceSpaces(ReplaceEntities(ReplaceNbsp(ReplaceTags(text, 1), 1), 1), 1)

cleanText(text) ==
    trim(ReplaceSpaces(ReplaceEntities(ReplaceNbsp(ReplaceTags(text, 1), 1), 1), 1))

VERIFICATION_KEYWORDS == <<
    <<"v", "e", "r", "i", "f", "i", "c", "a", "t", "i", "o", "n">>, <<"v", "e", "r", "i", "f", "y">>, <<"c", "o", "d", "e">>, <<"p", "i", "n">>, <<"o", "t", "p">>, <<"p", "a", "s", "s", "c", "o", "d", "e">>,
    <<"c", "o", "n", "f", "i", "r", "m", "a", "t", "i", "o", "n">>, <<"c", "o", "n", "f", "i", "r", "m">>, <<"s", "e", "c", "u", "r", "i", "t", "y">>, <<"s", "e", "c", "u", "r", "e">>, <<"a", "u", "t", "h", "o", "r", "i", "z", "a", "t", "i", "o", "n">>,
    <<"a", "u", "t", "h", "e", "n", "t", "i", "c", "a", "t", "e">>, <<"a", "u", "t", "h", "e", "n", "t", "i", "c", "a", "t", "i", "o", "n">>, <<"a", "u", "t", "h">>, <<"l", "o", "g", "i", "n">>, <<"l", "o", "g", " ", "i", "n">>,
    <<"s", "i", "g", "n", " ", "i", "n">>, <<"s", "i", "g", "n", "-", "i", "n">>, <<"2", "f", "a">>, <<"t", "w", "o", "-", "f", "a", "c", "t", "o", "r">>, <<"t", "w", "o", " ", "f", "a", "c", "t", "o", "r">>,
    <<"o", "n", "e", "-", "t", "i", "m", "e">>, <<"o", "n", "e", " ", "t", "i", "m", "e">>, <<"o", "n", "e", "t", "i", "m", "e">>, <<"p", "a", "s", "s", "w", "o", "r", "d">>, <<"t", "o", "k", "e", "n">>,
    <<"a", "c", "c", "e", "s", "s", " ", "c", "o", "d", "e">>, <<"t", "e", "m", "p", "o", "r", "a", "r", "y", " ", "c", "o", "d", "e">>, <<"v", "a", "l", "i", "d", "a", "t", "i", "o", "n">> >>

\* hasVerificationContext without the keyword test
hasVerificationContext_Always(text) == TRUE

hasVerificationContext(text) ==
    LET lowerText == toLowerCase(text)
    IN  \E k \in 1..Len(VERIFICATION_KEYWORDS) : Includes(lowerText, VERIFICATION_KEYWORDS[k])

(***************************************************************************)
(* src/services/otp-extractor.js: the patterns of the cascade              *)
(*                                                                         *)
(* A position is the index of the next character to read, 0 for a failed   *)
(* match.  A pattern's operator P(s, i) is capture group 1 of the match of *)
(* the pattern that starts at position i, <<>> when there is none.         *)
(***************************************************************************)
\* no match
NoMatch == <<>>

\* \b at position p: exactly one of the characters before and after is \w
WordBoundary(s, p) ==
    (p - 1 >= 1 /\ p - 1 <= Len(s) /\ IsWord(s[p - 1]))
        # (p >= 1 /\ p <= Len(s) /\ IsWord(s[p]))

\* a literal word at position i: the position after it
Word(s, i, w) == IF i # 0 /\ AtFolded(s, i, w) THEN i + Len(w) ELSE 0

\* \s*: the position after the white space at i (what follows \s* in the
\* patterns never starts with white space, so no shorter run matches)
SkipSpace(s, i) == IF i = 0 THEN 0 ELSE i + SpaceRun(s, i)

\* \s+
SkipSpace1(s, i) == IF i = 0 \/ SpaceRun(s, i) = 0 THEN 0 ELSE i + SpaceRun(s, i)

\* the first position of the sequence q that is not 0: the alternatives of
\* a group in the order the pattern lists them
FirstOf(q) ==
    IF \A j \in 1..Len(q) : q[j] = 0 THEN 0
    ELSE q[Least({j \in 1..Len(q) : q[j] # 0})]

\* (?:w1|w2|...) at position i, each followed by Tail(_): the alternatives
\* in listed order
OneOf(s, i, ws) == [j \in 1..Len(ws) |-> Word(s, i, ws[j])]

\* \s*[:=]\s*
ColonOrEquals(s, i) ==
    LET a == SkipSpace(s, i)
    IN  IF a # 0 /\ a <= Len(s) /\ s[a] \in {":", "="} THEN SkipSpace(s, a + 1) ELSE 0

\* \s*[:=]?\s*
OptColonOrEquals(s, i) ==
    LET a == SkipSpace(s, i)
    IN  IF a # 0 /\ a <= Len(s) /\ s[a] \in {":", "="} THEN SkipSpace(s, a + 1) ELSE a

\* \s*(?:is|:|=)\s*
IsOrColon(s, i) ==
    LET a == SkipSpace(s, i)
    IN  SkipSpace(s, FirstOf(OneOf(s, a, << <<"i", "s">>, <<":">>, <<"=">> >>)))

\* ([0-9]{4,8}) written as ([A-Za-z0-9]{4,8}): letters captured as well
Digits48_Alnum(s, m) ==
    LET n == IF m = 0 \/ m > Len(s) THEN 0
             ELSE Least({k \in m..(Len(s) + 1) : k > Len(s) \/ ~IsAlnum(s[k])}) - m
    IN  IF n < 4 THEN NoMatch ELSE SubSeq(s, m, m + Min(n, 8) - 1)

\* ([0-9]{4,8}) at position m with nothing after it: as many digits as
\* there are, up to 8
Digits48(s, m) ==
    IF m = 0 \/ DigitRun(s, m) < 4 THEN NoMatch
    ELSE SubSeq(s, m, m + Min(DigitRun(s, m), 8) - 1)

\* ([0-9]{4,8})\b at position m: the longest of 8 down to 4 digits that
\* ends at a word boundary
Digits48B(s, m) ==
    LET ks == {k \in 4..8 : k <= DigitRun(s, m) /\ WordBoundary(s, m + k)}
    IN  IF m = 0 \/ ks = {} THEN NoMatch ELSE SubSeq(s, m, m + Greatest(ks) - 1)

\* \b([0-9]{4,8})\b at position q
Token(s, q) == IF q # 0 /\ WordBoundary(s, q) THEN Digits48B(s, q) ELSE NoMatch

\* [\s\S]{1,n}?\b([0-9]{4,8})\b from position e: the first token that
\* starts 1 to n characters after e
LazyToken(s, e, n) ==
    LET qs == {q \in (e + 1)..Min(e + n, Len(s)) : Token(s, q) # NoMatch}
    IN  IF e = 0 \/ qs = {} THEN NoMatch ELSE Token(s, Least(qs))

\* [-\s]
IsSeparator(c) == c = "-" \/ IsSpace(c)

\* n digits at position m: the position after them
DigitsN(s, m, n) == IF m # 0 /\ DigitRun(s, m) >= n THEN m + n ELSE 0

\* [-\s] at position m: the position after it
Separator(s, m) == IF m # 0 /\ m <= Len(s) /\ IsSeparator(s[m]) THEN m + 1 ELSE 0

\* the capture from position m to the position e after it, which must be a
\* word boundary
CaptureB(s, m, e) ==
    IF m = 0 \/ e = 0 \/ ~WordBoundary(s, e) THEN NoMatch ELSE SubSeq(s, m, e - 1)

\* ([0-9]{3}[-\s][0-9]{3})\b
Groups33(s, m) ==
    CaptureB(s, m, DigitsN(s, Separator(s, DigitsN(s, m, 3)), 3))

\* ([0-9]{2}[-\s][0-9]{2}[-\s][0-9]{2})\b
Groups222(s, m) ==
    CaptureB(s, m, DigitsN(s, Separator(s, DigitsN(s, Separator(s, DigitsN(s, m, 2)), 2)), 2))

\* ([0-9]{4}[-\s][0-9]{4})\b
Groups44(s, m) ==
    CaptureB(s, m, DigitsN(s, Separator(s, DigitsN(s, m, 4)), 4))

\* String.prototype.match without the g flag: the capture of the leftmost match
FirstMatch(s, P(_, _)) ==
    LET starts == {i \in 1..Len(s) : P(s, i) # NoMatch}
    IN  IF starts = {} THEN NoMatch ELSE P(s, Least(starts))

\* the captures of the sequence q of captures that matched, alternatives in
\* listed order
FirstCapture(q) ==
    IF \A j \in 1..Len(q) : q[j] = NoMatch THEN NoMatch
    ELSE q[Least({j \in 1..Len(q) : q[j] # NoMatch})]

\* ---- tier 1: explicit labels ----

\* verification|confirmation|security|auth(?:entication)?|one[- ]?time|2fa|
\* two[- ]?factor|temporary, an optional part tried before its absence
T1_LABELS == <<
    <<"v", "e", "r", "i", "f", "i", "c", "a", "t", "i", "o", "n">>, <<"c", "o", "n", "f", "i", "r", "m", "a", "t", "i", "o", "n">>, <<"s", "e", "c", "u", "r", "i", "t", "y">>, <<"a", "u", "t", "h", "e", "n", "t", "i", "c", "a", "t", "i", "o", "n">>, <<"a", "u", "t", "h">>,
    <<"o", "n", "e", "-", "t", "i", "m", "e">>, <<"o", "n", "e", " ", "t", "i", "m", "e">>, <<"o", "n", "e", "t", "i", "m", "e">>, <<"2", "f", "a">>,
    <<"t", "w", "o", "-", "f", "a", "c", "t", "o", "r">>, <<"t", "w", "o", " ", "f", "a", "c", "t", "o", "r">>, <<"t", "w", "o", "f", "a", "c", "t", "o", "r">>, <<"t", "e", "m", "p", "o", "r", "a", "r", "y">> >>

\* (?:code|otp|pin|passcode)
CODE_OTP_PIN_PASSCODE == << <<"c", "o", "d", "e">>, <<"o", "t", "p">>, <<"p", "i", "n">>, <<"p", "a", "s", "s", "c", "o", "d", "e">> >>

\* (?:code|pin|otp|passcode)
CODE_PIN_OTP_PASSCODE == << <<"c", "o", "d", "e">>, <<"p", "i", "n">>, <<"o", "t", "p">>, <<"p", "a", "s", "s", "c", "o", "d", "e">> >>

\* (?:code|otp|pin)
CODE_OTP_PIN == << <<"c", "o", "d", "e">>, <<"o", "t", "p">>, <<"p", "i", "n">> >>

\* /(?:verification|...|temporary)\s*code\s*(?:is|:|=|:)\s*([0-9]{4,8})/i
T1P1(s, i) ==
    FirstCapture([j \in 1..Len(T1_LABELS) |->
        Digits48(s, IsOrColon(s, Word(s, SkipSpace(s, Word(s, i, T1_LABELS[j])), <<"c", "o", "d", "e">>)))])

\* (?:verification\s+|security\s+|one[- ]?time\s+)?
T1P2_QUALIFIERS == <<
    <<"v", "e", "r", "i", "f", "i", "c", "a", "t", "i", "o", "n">>, <<"s", "e", "c", "u", "r", "i", "t", "y">>, <<"o", "n", "e", "-", "t", "i", "m", "e">>, <<"o", "n", "e", " ", "t", "i", "m", "e">>, <<"o", "n", "e", "t", "i", "m", "e">> >>

\* /(?:your|the)\s+(?:verification\s+|security\s+|one[- ]?time\s+)?
\*  (?:code|otp|pin|passcode)\s*(?:is|:|=)\s*([0-9]{4,8})/i
T1P2(s, i) ==
    LET a == SkipSpace1(s, FirstOf(OneOf(s, i, << <<"y", "o", "u", "r">>, <<"t", "h", "e">> >>)))
        Label(b) == Digits48(s, IsOrColon(s, FirstOf(OneOf(s, b, CODE_OTP_PIN_PASSCODE))))
        qualified == FirstCapture([j \in 1..Len(T1P2_QUALIFIERS) |->
                         Label(SkipSpace1(s, Word(s, a, T1P2_QUALIFIERS[j])))])
    IN  IF qualified # NoMatch THEN qualified ELSE Label(a)

\* /\b(?:code|pin|otp|passcode)\s*[:=]\s*([0-9]{4,8})\b/i
T1P3(s, i) ==
    IF ~WordBoundary(s, i) THEN NoMatch
    ELSE Digits48B(s, ColonOrEquals(s, FirstOf(OneOf(s, i, CODE_PIN_OTP_PASSCODE))))

\* /(?:use|enter|input|type)\s+(?:this\s+|the\s+)?(?:code|otp|pin)\s*[:=]?\s*([0-9]{4,8})/i
T1P4(s, i) ==
    LET a == SkipSpace1(s, FirstOf(OneOf(s, i, << <<"u", "s", "e">>, <<"e", "n", "t", "e", "r">>, <<"i", "n", "p", "u", "t">>, <<"t", "y", "p", "e">> >>)))
        Label(b) == Digits48(s, OptColonOrEquals(s, FirstOf(OneOf(s, b, CODE_OTP_PIN))))
        article == FirstCapture([j \in 1..2 |->
                       Label(SkipSpace1(s, Word(s, a, << <<"t", "h", "i", "s">>, <<"t", "h", "e">> >>[j])))])
    IN  IF article # NoMatch THEN article ELSE Label(a)

\* \s+is\s+your\s+(?:verification\s+|security\s+)?(?:code|otp|pin) at position e
IsYourCode(s, e) ==
    LET a == SkipSpace1(s, Word(s, SkipSpace1(s, Word(s, SkipSpace1(s, e), <<"i", "s">>)), <<"y", "o", "u", "r">>))
        Label(b) == FirstOf(OneOf(s, b, CODE_OTP_PIN)) # 0
    IN  \/ \E w \in { <<"v", "e", "r", "i", "f", "i", "c", "a", "t", "i", "o", "n">>, <<"s", "e", "c", "u", "r", "i", "t", "y">> } : Label(SkipSpace1(s, Word(s, a, w)))
        \/ Label(a)

\* /\b([0-9]{4,8})\s+is\s+your\s+(?:verification\s+|security\s+)?(?:code|otp|pin)/i
T1P5(s, i) ==
    LET ks == {k \in 4..8 : k <= DigitRun(s, i) /\ IsYourCode(s, i + k)}
    IN  IF ~WordBoundary(s, i) \/ ks = {} THEN NoMatch
        ELSE SubSeq(s, i, i + Greatest(ks) - 1)

\* /here\s+is\s+(?:your\s+)?(?:code|otp|pin)\s*[:=]?\s*([0-9]{4,8})/i
T1P6(s, i) ==
    LET a == SkipSpace1(s, Word(s, SkipSpace1(s, Word(s, i, <<"h", "e", "r", "e">>)), <<"i", "s">>))
        Label(b) == Digits48(s, OptColonOrEquals(s, FirstOf(OneOf(s, b, CODE_OTP_PIN))))
        yours == Label(SkipSpace1(s, Word(s, a, <<"y", "o", "u", "r">>)))
    IN  IF yours # NoMatch THEN yours ELSE Label(a)

\* /code\s+to\s+(?:verify|confirm|complete|access)\s*[:=]?\s*([0-9]{4,8})/i
T1P7(s, i) ==
    LET a == SkipSpace1(s, Word(s, SkipSpace1(s, Word(s, i, <<"c", "o", "d", "e">>)), <<"t", "o">>))
        b == FirstOf(OneOf(s, a, << <<"v", "e", "r", "i", "f", "y">>, <<"c", "o", "n", "f", "i", "r", "m">>, <<"c", "o", "m", "p", "l", "e", "t", "e">>, <<"a", "c", "c", "e", "s", "s">> >>))
    IN  Digits48(s, OptColonOrEquals(s, b))

\* ---- tier 2: formatted codes with labels ----

\* /\b(?:code|pin|otp|passcode)\s*[:=]?\s*([0-9]{3}[-\s][0-9]{3})\b/i
T2P1(s, i) ==
    IF ~WordBoundary(s, i) THEN NoMatch
    ELSE Groups33(s, OptColonOrEquals(s, FirstOf(OneOf(s, i, CODE_PIN_OTP_PASSCODE))))

\* /\b(?:code|pin|otp|passcode)\s*[:=]?\s*([0-9]{2}[-\s][0-9]{2}[-\s][0-9]{2})\b/i
T2P2(s, i) ==
    IF ~WordBoundary(s, i) THEN NoMatch
    ELSE Groups222(s, OptColonOrEquals(s, FirstOf(OneOf(s, i, CODE_PIN_OTP_PASSCODE))))

\* ---- tier 3: quoted and emphasized codes ----

\* /["']([0-9]{4,8})["']/
T3P1(s, i) ==
    LET ks == {k \in 4..8 : k <= DigitRun(s, i + 1) /\ i + 1 + k <= Len(s)
                            /\ s[i + 1 + k] \in {"\"", "'"}}
    IN  IF s[i] \notin {"\"", "'"} \/ ks = {} THEN NoMatch
        ELSE SubSeq(s, i + 1, i + Greatest(ks))

\* the length of the run of * that starts at position i
RECURSIVE StarRun(_, _)
StarRun(s, i) ==
    IF i > Len(s) \/ s[i] # "*" THEN 0 ELSE 1 + StarRun(s, i + 1)

\* /\*+([0-9]{4,8})\*+/
T3P2(s, i) ==
    LET m == i + StarRun(s, i)
        ks == {k \in 4..8 : k <= DigitRun(s, m) /\ StarRun(s, m + k) >= 1}
    IN  IF StarRun(s, i) = 0 \/ ks = {} THEN NoMatch
        ELSE SubSeq(s, m, m + Greatest(ks) - 1)

\* the length of the run of characters other than digits that starts at i
NonDigitRun(s, i) ==
    IF i > Len(s) THEN 0
    ELSE Least({k \in i..(Len(s) + 1) : k > Len(s) \/ IsDigit(s[k])}) - i

\* \[([0-9]{4,8})\] at position p
Bracketed(s, p) ==
    LET ks == {k \in 4..8 : k <= DigitRun(s, p + 1) /\ p + 1 + k <= Len(s)
                            /\ s[p + 1 + k] = "]"}
    IN  IF p > Len(s) \/ s[p] # "[" \/ ks = {} THEN NoMatch
        ELSE SubSeq(s, p + 1, p + Greatest(ks))

\* /(?:code|otp|pin|verification)[^0-9]{0,30}\[([0-9]{4,8})\]/i
T3P3(s, i) ==
    LET e == FirstOf(OneOf(s, i, << <<"c", "o", "d", "e">>, <<"o", "t", "p">>, <<"p", "i", "n">>, <<"v", "e", "r", "i", "f", "i", "c", "a", "t", "i", "o", "n">> >>))
        ns == {n \in 0..30 : n <= NonDigitRun(s, e) /\ Bracketed(s, e + n) # NoMatch}
    IN  IF e = 0 \/ ns = {} THEN NoMatch ELSE Bracketed(s, e + Greatest(ns))

\* ---- tier 4: context proximity ----

\* /(?:use\s+)?this\s+code[\s\S]{1,300}?\b([0-9]{4,8})\b/i
T4P1(s, i) ==
    LET Phrase(a) == Word(s, SkipSpace1(s, Word(s, a, <<"t", "h", "i", "s">>)), <<"c", "o", "d", "e">>)
        used == Phrase(SkipSpace1(s, Word(s, i, <<"u", "s", "e">>)))
    IN  LazyToken(s, IF used # 0 THEN used ELSE Phrase(i), 300)

\* /enter\s+(?:the\s+)?(?:following\s+)?code[\s\S]{1,300}?\b([0-9]{4,8})\b/i
T4P2(s, i) ==
    LET a == SkipSpace1(s, Word(s, i, <<"e", "n", "t", "e", "r">>))
        the == SkipSpace1(s, Word(s, a, <<"t", "h", "e">>))
        b == IF the # 0 THEN the ELSE a
        following == SkipSpace1(s, Word(s, b, <<"f", "o", "l", "l", "o", "w", "i", "n", "g">>))
        c == IF following # 0 THEN following ELSE b
    IN  LazyToken(s, Word(s, c, <<"c", "o", "d", "e">>), 300)

\* (?:will\s+)?expire at position p
WillExpire(s, p) ==
    \/ Word(s, SkipSpace1(s, Word(s, p, <<"w", "i", "l", "l">>)), <<"e", "x", "p", "i", "r", "e">>) # 0
    \/ Word(s, p, <<"e", "x", "p", "i", "r", "e">>) # 0

\* /\b([0-9]{4,8})\b[\s\S]{1,100}?(?:will\s+)?expire/i
T4P3(s, i) ==
    LET ks == {k \in 4..8 : /\ k <= DigitRun(s, i)
                            /\ WordBoundary(s, i + k)
                            /\ \E n \in 1..100 : WillExpire(s, i + k + n)}
    IN  IF ~WordBoundary(s, i) \/ ks = {} THEN NoMatch
        ELSE SubSeq(s, i, i + Greatest(ks) - 1)

\* /expire[\s\S]{1,100}?\b([0-9]{4,8})\b/i
T4P4(s, i) == LazyToken(s, Word(s, i, <<"e", "x", "p", "i", "r", "e">>), 100)

\* /sign\s*(?:in|up)[\s\S]{1,250}?\b([0-9]{4,8})\b/i
T4P5(s, i) ==
    LazyToken(s, FirstOf(OneOf(s, SkipSpace(s, Word(s, i, <<"s", "i", "g", "n">>)), << <<"i", "n">>, <<"u", "p">> >>)), 250)

\* /log\s*in[\s\S]{1,250}?\b([0-9]{4,8})\b/i
T4P6(s, i) == LazyToken(s, Word(s, SkipSpace(s, Word(s, i, <<"l", "o", "g">>)), <<"i", "n">>), 250)

\* /verification[\s\S]{1,200}?\b([0-9]{4,8})\b/i
T4P7(s, i) == LazyToken(s, Word(s, i, <<"v", "e", "r", "i", "f", "i", "c", "a", "t", "i", "o", "n">>), 200)

\* /one[- ]?time[\s\S]{1,150}?\b([0-9]{4,8})\b/i
T4P8(s, i) ==
    LazyToken(s, FirstOf(OneOf(s, i, << <<"o", "n", "e", "-", "t", "i", "m", "e">>, <<"o", "n", "e", " ", "t", "i", "m", "e">>, <<"o", "n", "e", "t", "i", "m", "e">> >>)), 150)

\* /\bcode\b[^0-9]{1,50}([0-9]{4,8})\b/i
T4P9(s, i) ==
    LET e == Word(s, i, <<"c", "o", "d", "e">>)
        ns == {n \in 1..50 : n <= NonDigitRun(s, e) /\ Digits48B(s, e + n) # NoMatch}
    IN  IF ~WordBoundary(s, i) \/ e = 0 \/ ~WordBoundary(s, e) \/ ns = {} THEN NoMatch
        ELSE Digits48B(s, e + Greatest(ns))

\* ---- tier 5: standalone formatted codes ----

\* /\b([0-9]{3}[-\s][0-9]{3})\b/
T5P1(s, i) == IF WordBoundary(s, i) THEN Groups33(s, i) ELSE NoMatch

\* /\b([0-9]{2}[-\s][0-9]{2}[-\s][0-9]{2})\b/
T5P2(s, i) == IF WordBoundary(s, i) THEN Groups222(s, i) ELSE NoMatch

\* /\b([0-9]{4}[-\s][0-9]{4})\b/
T5P3(s, i) == IF WordBoundary(s, i) THEN Groups44(s, i) ELSE NoMatch

\* ---- tier 6: smart context extraction ----
priorityPhrases == <<
    <<"t", "h", "i", "s", " ", "c", "o", "d", "e">>, <<"y", "o", "u", "r", " ", "c", "o", "d", "e">>, <<"t", "h", "e", " ", "c", "o", "d", "e">>, <<"e", "n", "t", "e", "r", " ", "c", "o", "d", "e">>, <<"u", "s", "e", " ", "c", "o", "d", "e">>,
    <<"v", "e", "r", "i", "f", "i", "c", "a", "t", "i", "o", "n", " ", "c", "o", "d", "e">>, <<"c", "o", "n", "f", "i", "r", "m", "a", "t", "i", "o", "n", " ", "c", "o", "d", "e">>, <<"s", "e", "c", "u", "r", "i", "t", "y", " ", "c", "o", "d", "e">>,
    <<"o", "n", "e", "-", "t", "i", "m", "e", " ", "c", "o", "d", "e">>, <<"a", "c", "c", "e", "s", "s", " ", "c", "o", "d", "e">>, <<"l", "o", "g", "i", "n", " ", "c", "o", "d", "e">>, <<"o", "t", "p">> >>

\* String.prototype.indexOf: the first position of w in s, 0 for -1
indexOf(s, w) ==
    LET hits == {i \in 1..(Len(s) + 1) : At(s, i, w)}
    IN  IF hits = {} THEN 0 ELSE Least(hits)

\* clean.substring(index, Math.min(clean.length, index + 400))
searchWindow(clean, index) == SubSeq(clean, index, Min(Len(clean), index + 400 - 1))

\* s.match(/\b([0-9]{4,8})\b/g) from position q on: the matches from left to
\* right, each search starting where the last match ended
RECURSIVE TokensFrom(_, _)
TokensFrom(s, q) ==
    IF q > Len(s) THEN <<>>
    ELSE LET j == Least({k \in q..(Len(s) + 1) : k > Len(s) \/ Token(s, k) # NoMatch})
         IN  IF j > Len(s) THEN <<>>
             ELSE <<Token(s, j)>> \o TokensFrom(s, j + Len(Token(s, j)))

\* the candidates of priorityPhrases[p]
Tier6Candidates(clean, p) ==
    LET index == indexOf(toLowerCase(clean), priorityPhrases[p])
    IN  IF index = 0 THEN <<>> ELSE TokensFrom(searchWindow(clean, index), 1)

\* ---- tier 7: generic fallback by length priority ----
\* the fallback lengths in rising order
fallbackLengths_Rising == <<4, 5, 6, 8>>

fallbackLengths == <<6, 4, 5, 8>>

\* /\b([0-9]{len})\b/ at position q
ExactToken(s, q, len) ==
    IF WordBoundary(s, q) /\ DigitRun(s, q) >= len /\ WordBoundary(s, q + len)
    THEN SubSeq(s, q, q + len - 1)
    ELSE NoMatch

\* [...clean.matchAll(/\b([0-9]{len})\b/g)] from position q on
RECURSIVE ExactTokensFrom(_, _, _)
ExactTokensFrom(s, q, len) ==
    IF q > Len(s) THEN <<>>
    ELSE LET j == Least({k \in q..(Len(s) + 1) : k > Len(s) \/ ExactToken(s, k, len) # NoMatch})
         IN  IF j > Len(s) THEN <<>>
             ELSE <<ExactToken(s, j, len)>> \o ExactTokensFrom(s, j + len, len)

Tier7Candidates(clean, l) == ExactTokensFrom(clean, 1, fallbackLengths[l])

(***************************************************************************)
(* src/services/otp-extractor.js: the cascade                              *)
(***************************************************************************)
\* const match = clean.match(pattern); if (match && match[1]): the
\* candidates of one pattern, none or one
One(capture) == IF capture = NoMatch THEN <<>> ELSE <<capture>>

\* the candidates of pattern k of tier t, in the order they are tried
Candidates(t, k, s) ==
    CASE t = 1 /\ k = 1 -> One(FirstMatch(s, T1P1))
      [] t = 1 /\ k = 2 -> One(FirstMatch(s, T1P2))
      [] t = 1 /\ k = 3 -> One(FirstMatch(s, T1P3))
      [] t = 1 /\ k = 4 -> One(FirstMatch(s, T1P4))
      [] t = 1 /\ k = 5 -> One(FirstMatch(s, T1P5))
      [] t = 1 /\ k = 6 -> One(FirstMatch(s, T1P6))
      [] t = 1 /\ k = 7 -> One(FirstMatch(s, T1P7))
      [] t = 2 /\ k = 1 -> One(FirstMatch(s, T2P1))
      [] t = 2 /\ k = 2 -> One(FirstMatch(s, T2P2))
      [] t = 3 /\ k = 1 -> One(FirstMatch(s, T3P1))
      [] t = 3 /\ k = 2 -> One(FirstMatch(s, T3P2))
      [] t = 3 /\ k = 3 -> One(FirstMatch(s, T3P3))
      [] t = 4 /\ k = 1 -> One(FirstMatch(s, T4P1))
      [] t = 4 /\ k = 2 -> One(FirstMatch(s, T4P2))
      [] t = 4 /\ k = 3 -> One(FirstMatch(s, T4P3))
      [] t = 4 /\ k = 4 -> One(FirstMatch(s, T4P4))
      [] t = 4 /\ k = 5 -> One(FirstMatch(s, T4P5))
      [] t = 4 /\ k = 6 -> One(FirstMatch(s, T4P6))
      [] t = 4 /\ k = 7 -> One(FirstMatch(s, T4P7))
      [] t = 4 /\ k = 8 -> One(FirstMatch(s, T4P8))
      [] t = 4 /\ k = 9 -> One(FirstMatch(s, T4P9))
      [] t = 5 /\ k = 1 -> One(FirstMatch(s, T5P1))
      [] t = 5 /\ k = 2 -> One(FirstMatch(s, T5P2))
      [] t = 5 /\ k = 3 -> One(FirstMatch(s, T5P3))
      [] t = 6 -> Tier6Candidates(s, k)
      [] t = 7 -> Tier7Candidates(s, k)

\* the number of patterns (tier 6: phrases, tier 7: lengths) of each tier
TierSize == <<7, 2, 3, 9, 3, Len(priorityPhrases), Len(fallbackLengths)>>

\* the confidences with tier 1 and tier 7 exchanged
TierConfidence_Exchanged == <<"low", "high", "high", "medium", "medium", "medium", "high">>

\* the confidence each tier returns
TierConfidence == <<"high", "high", "high", "medium", "medium", "medium", "low">>

\* for (const match of matches) { const code = processCode(match); if (code) return ... }:
\* the code of the first candidate that processCode accepts, NoCode for none
RECURSIVE FirstAccepted(_)
FirstAccepted(cands) ==
    IF cands = <<>> THEN NoCode
    ELSE IF processCode(Head(cands)) # NoCode THEN processCode(Head(cands))
    ELSE FirstAccepted(Tail(cands))

\* the value null of extractOTP and extractOTPFromEmail
NoResult == [code |-> NoCode, confidence |-> "none", source |-> "none"]

\* { code, confidence }
Found(code, confidence) == [code |-> code, confidence |-> confidence, source |-> "none"]

(***************************************************************************)
(* Inputs                                                                  *)
(***************************************************************************)
\* all concatenations of at most n members of the set of strings V
RECURSIVE Concats(_, _)
Concats(V, n) ==
    IF n = 0 THEN {<<>>}
    ELSE LET shorter == Concats(V, n - 1)
         IN  shorter \cup {a \o b : a \in V, b \in shorter}

\* the pieces candidate codes are put together from
CodeVocab == {
    <<"0", "0">>, <<"1", "2">>, <<"3", "4">>, <<"2", "0", "1", "9">>, <<"3", "9">>, <<"A", "1">>, <<"F", "F">>, <<"p", "x">>,
    <<"4", "8", "2", "9", "1", "7", "5">>, <<"-">>, <<" ">>, <<"!">>, <<SharpS>> }

\* the codes of the specification's scenarios and the edges of the year rule
SampleCodes == {
    <<"1", "2", "3", "4", "5", "6">>, <<"9", "6", "1", "2", "3", "4">>, <<"1", "2", "3", "1", "2", "3">>, <<"3", "9", "3", "9", "3", "9">>, <<"A", "1", "B", "2", "C", "3">>, <<"a", "1", "b", "2", "c", "3">>,
    <<"0", "0", "0", "0", "0", "0">>, <<"1", "1", "1", "1", "1", "1">>, <<"1", "8", "9", "9">>, <<"1", "9", "0", "0">>, <<"2", "1", "0", "0">>, <<"2", "1", "0", "1">>,
    <<"4", "8", "2", "9", "1", "3">>, <<"4", "8", "2", "9">>, <<"4", "8", "2", "9", "1">>, <<"4", "8", "2", "9", "1", "7", "3", "6">>, <<"4", "8", "2", "9", "1", "7", "3", "6", "5">>,
    <<"1", "0", "0", "r", "e", "m">>, <<"1", "2", "\t", "3", "4", "\n", "5", "6">>, <<"5", "8", "-", "1", "9", "-", "0", "2">>, <<"1", "2", "3", "4", "5", "6", "p", "x">> }

MaxCodeFrags == 3

\* the pairs of digits numeric codes are put together from: months, days,
\* centuries and the halves of rising and falling runs
DigitPairs == {
    <<"0", "0">>, <<"0", "1">>, <<"1", "0">>, <<"1", "2">>, <<"2", "0">>, <<"2", "3">>, <<"3", "1">>, <<"3", "2">> }

MaxDigitPairs == 4

NumericCodes == Concats(DigitPairs, MaxDigitPairs)

CodeStrings == Concats(CodeVocab, MaxCodeFrags) \cup SampleCodes \cup NumericCodes

\* the arguments given to isValidOTP and getValidationFailureReason
CodeValues ==
    {Str(s) : s \in CodeStrings} \cup {Null, Undefined, Num(<<"4", "8", "2", "9", "1", "3">>)}

\* the pieces texts are put together from
TextVocab == {
    <<"c", "o", "d", "e", ":", " ">>, <<"4", "8", "2", "9", "1", "3">>, <<"1", "2", "3", "4", " ">>, <<" ">>, <<"y", "o", "u", "r", " ">>,
    <<"7", "3", "9", "1">>, <<"o", "t", "p", " ">>, <<"5", "8", "3", "-", "9", "2", "0">>, <<"e", "x", "p", "i", "r", "e", "s", " ">>, <<"v", "e", "r", "i", "f", "y", " ">> }

\* one text for each pattern of the cascade, and the specification's scenarios
SampleTexts == {
    <<"p", "a", "s", "s", "w", "o", "r", "d", " ", "4", "8", "2", "9", "1", " ", "7", "3", "9", "1">>,
    <<"p", "a", "s", "s", "w", "o", "r", "d", " ", "7", "3", "9", "1", " ", "5", "8", "2", "0">>,
    <<"p", "a", "s", "s", "w", "o", "r", "d", " ", "1", "2", "3", "4", "5", "6", " ", "6", "0", "4", "1", "2", "7", " ", "4", "8", "2", "9", "1", "3">>,
    <<"p", "a", "s", "s", "w", "o", "r", "d", " ", "1", "2", "3", "4", "5", "6", " ", "2", "0", "1", "9">>,
    <<"v", "e", "r", "i", "f", "i", "c", "a", "t", "i", "o", "n", " ", "c", "o", "d", "e", " ", "i", "s", " ", "4", "8", "2", "9", "1", "3">>,
    <<"t", "h", "e", " ", "c", "o", "d", "e", " ", "i", "s", " ", "7", "3", "9", "1", "0", "5">>,
    <<"P", "I", "N", ":", " ", "7", "3", "9", "1">>,
    <<"e", "n", "t", "e", "r", " ", "c", "o", "d", "e", " ", "4", "8", "2", "9", "1", "3">>,
    <<"4", "8", "2", "9", "1", "3", " ", "i", "s", " ", "y", "o", "u", "r", " ", "c", "o", "d", "e">>,
    <<"h", "e", "r", "e", " ", "i", "s", " ", "c", "o", "d", "e", " ", "4", "8", "2", "9", "1", "3">>,
    <<"c", "o", "d", "e", " ", "t", "o", " ", "v", "e", "r", "i", "f", "y", ":", " ", "4", "8", "2", "9", "1", "3">>,
    <<"c", "o", "d", "e", ":", " ", "5", "8", "3", "-", "9", "2", "0">>,
    <<"p", "i", "n", " ", "5", "8", "-", "1", "9", "-", "0", "2">>,
    <<"o", "t", "p", " ", "\"", "4", "8", "2", "9", "1", "3", "\"">>,
    <<"o", "t", "p", " ", "*", "4", "8", "2", "9", "1", "3", "*">>,
    <<"o", "t", "p", ",", " ", "s", "e", "e", " ", "[", "4", "8", "2", "9", "1", "3", "]">>,
    <<"u", "s", "e", " ", "t", "h", "i", "s", " ", "c", "o", "d", "e", " ", "t", "o", " ", "c", "o", "n", "t", "i", "n", "u", "e", " ", "4", "8", "2", "9", "1", "3">>,
    <<"e", "n", "t", "e", "r", " ", "t", "h", "e", " ", "f", "o", "l", "l", "o", "w", "i", "n", "g", " ", "c", "o", "d", "e", " ", "b", "e", "l", "o", "w", " ", "4", "8", "2", "9", "1", "3">>,
    <<"p", "a", "s", "s", "w", "o", "r", "d", " ", "4", "8", "2", "9", "1", "3", " ", "w", "i", "l", "l", " ", "e", "x", "p", "i", "r", "e", " ", "s", "o", "o", "n">>,
    <<"t", "o", "k", "e", "n", " ", "e", "x", "p", "i", "r", "e", "s", " ", "4", "8", "2", "9", "1", "3">>,
    <<"s", "i", "g", "n", " ", "i", "n", " ", "w", "i", "t", "h", " ", "4", "8", "2", "9", "1", "3">>,
    <<"l", "o", "g", " ", "i", "n", " ", "u", "s", "i", "n", "g", " ", "4", "8", "2", "9", "1", "3">>,
    <<"v", "e", "r", "i", "f", "i", "c", "a", "t", "i", "o", "n", " ", "f", "o", "r", " ", "y", "o", "u", " ", "4", "8", "2", "9", "1", "3">>,
    <<"o", "n", "e", "-", "t", "i", "m", "e", " ", "s", "e", "c", "r", "e", "t", " ", "4", "8", "2", "9", "1", "3">>,
    <<"c", "o", "d", "e", " ", "f", "o", "r", " ", "y", "o", "u", " ", "4", "8", "2", "9", "1", "3">>,
    <<"p", "a", "s", "s", "w", "o", "r", "d", " ", "5", "8", "3", "-", "9", "2", "0">>,
    <<"p", "a", "s", "s", "w", "o", "r", "d", " ", "5", "8", "-", "1", "9", "-", "0", "2">>,
    <<"p", "a", "s", "s", "w", "o", "r", "d", " ", "5", "8", "3", "9", "-", "2", "0", "4", "7">>,
    <<"a", "c", "c", "e", "s", "s", " ", "c", "o", "d", "e", " ", "1", "2", "3", "4", " ", "t", "h", "e", "n", " ", "4", "8", "2", "9", "1", "3">>,
    <<"p", "a", "s", "s", "w", "o", "r", "d", " ", "7", "3", "9", "1", " ", "4", "8", "2", "9", "1", " ", "4", "8", "2", "9", "1", "3", " ", "4", "8", "2", "9", "1", "7", "3", "6">>,
    <<"p", "a", "s", "s", "w", "o", "r", "d", " ", "7", "3", "9", "1", " ", "4", "8", "2", "9", "1", " ", "4", "8", "2", "9", "1", "7", "3", "6">>,
    <<"p", "a", "s", "s", "w", "o", "r", "d", " ", "4", "8", "2", "9", "1", " ", "4", "8", "2", "9", "1", "7", "3", "6">>,
    <<"p", "a", "s", "s", "w", "o", "r", "d", " ", "4", "8", "2", "9", "1", "7", "3", "6">>,
    <<"p", "a", "s", "s", "w", "o", "r", "d", " ", "4", "8", "2", "9", "1", "7", "5">>,
    <<"c", "o", "d", "e", ":", " ", "1", "2", "3", "4", " ", "4", "8", "2", "9", "1", "3">>,
    <<"c", "o", "d", "e", " ", "i", "s", " ", "4", "8", "2", "9", "1", "3", "p", "x">>,
    <<"Y", "o", "u", "r", " ", "O", "T", "P", " ", "i", "s", " ", "2", "9", "4", "8", "1", "7">>,
    <<"Y", "o", "u", "r", " ", "c", "o", "d", "e", " ", "i", "s", " ", "A", "1", "B", "2", "C", "3">>,
    <<"v", "e", "r", "i", "f", "i", "c", "a", "t", "i", "o", "n", " ", "c", "o", "d", "e", " ", "i", "s", " ", "4", "8", "2", "9", "1", "3", "4", "8", "2", "9">>,
    <<"u", "s", "e", " ", "c", "o", "d", "e", " ", "4", "8", "2", "9", "A", "3", " ", "t", "o", " ", "s", "i", "g", "n", " ", "i", "n">>,
    <<"T", "h", "a", "n", "k", "s", " ", "f", "o", "r", " ", "s", "i", "g", "n", "i", "n", "g", " ", "i", "n", ".", " ", "Y", "o", "u", "r", " ", "v", "e", "r", "i", "f", "i", "c", "a", "t", "i", "o", "n", " ", "c", "o", "d", "e", ":", " ", "5", "8", "-", "1", "9", "-", "0", "2">>,
    <<"I", "n", "v", "o", "i", "c", "e", " ", "4", "8", "2", "9", "1", "3", " ", "a", "t", "t", "a", "c", "h", "e", "d">>,
    <<"<", "p", ">", "Y", "o", "u", "r", "&", "n", "b", "s", "p", ";", "c", "o", "d", "e", "&", "#", "1", "6", "0", ";", "i", "s", " ", "<", "b", ">", "4", "8", "2", "9", "1", "3", "<", "/", "b", ">", "<", "/", "p", ">">> }

MaxTextFrags == 3

\* n characters that belong to no pattern
Pad(n) == [i \in 1..n |-> "."]

\* texts longer than the window of tier 6: a token that ends 380, 400, 401 and
\* 403 characters after the start of the phrase otp, and one behind a
\* rejected token
LongTexts == {
    <<"o", "t", "p">> \o Pad(370) \o <<" ", "4", "8", "2", "9", "1", "3">>,
    <<"o", "t", "p">> \o Pad(390) \o <<" ", "4", "8", "2", "9", "1", "3">>,
    <<"o", "t", "p">> \o Pad(391) \o <<" ", "4", "8", "2", "9", "1", "3">>,
    <<"o", "t", "p">> \o Pad(393) \o <<" ", "4", "8", "2", "9", "1", "3">>,
    <<"o", "t", "p", " ", "1", "2", "3", "4", " ">> \o Pad(360) \o <<" ", "4", "8", "2", "9", "1", "3">> }

Texts == Concats(TextVocab, MaxTextFrags) \cup SampleTexts \cup LongTexts

\* the arguments given to extractOTP
TextValues == {Str(s) : s \in Texts} \cup {Null, Undefined, Num(<<"4", "8", "2", "9", "1", "3">>)}

\* the subjects and bodies given to extractOTPFromEmail
EmailValues ==
    {Null, Undefined, Str(<<>>), Num(<<"4", "8", "2", "9", "1", "3">>)} \cup
    {Str(s) : s \in {
        <<"Y", "o", "u", "r", " ", "O", "T", "P", " ", "i", "s", " ", "2", "9", "4", "8", "1", "7">>,
        <<"N", "e", "w", "s", "l", "e", "t", "t", "e", "r">>,
        <<"T", "h", "a", "n", "k", "s", " ", "f", "o", "r", " ", "s", "i", "g", "n", "i", "n", "g", " ", "i", "n", ".", " ", "Y", "o", "u", "r", " ", "v", "e", "r", "i", "f", "i", "c", "a", "t", "i", "o", "n", " ", "c", "o", "d", "e", ":", " ", "5", "8", "-", "1", "9", "-", "0", "2">>,
        <<"I", "n", "v", "o", "i", "c", "e", " ", "4", "8", "2", "9", "1", "3", " ", "a", "t", "t", "a", "c", "h", "e", "d">>,
        <<"c", "o", "d", "e", ":", " ", "1", "2", "3", "4", " ", "4", "8", "2", "9", "1", "3">>,
        <<"4", "8", "2", "9", "1", "3">>,
        <<"v", "e", "r", "i", "f", "y", " ", "7", "3", "9", "1">>,
        <<"o", "t", "p", " ", "1", "2", "3", "4">> }}

\* the pieces of markup the texts given to cleanText are put together from
MarkupVocab == {
    <<"<">>, <<">">>, <<"/", "b">>, <<"&", "n", "b", "s", "p">>, <<"&", "#", "1">>, <<";">>, <<" ">>, <<"\n">>, <<"&", "N", "B", "S", "P", ";">> }

\* texts with tags in tags, entities nested in entities and white space
SampleMarkup == {
    <<"<", "p", ">", "Y", "o", "u", "r", "&", "n", "b", "s", "p", ";", "c", "o", "d", "e", "&", "#", "1", "6", "0", ";", "i", "s", " ", "<", "b", ">", "4", "8", "2", "9", "1", "3", "<", "/", "b", ">", "<", "/", "p", ">">>,
    <<"&", "n", "<", "b", ">", "b", "s", "p", ";", "&", "#", "<", "i", ">", "1", ";">>,
    <<"&", "&", "#", "1", ";", "n", "b", "s", "p", ";", "<", "<", "b", ">", ">">>,
    <<"<", "&", "n", "b", "s", "p", ";", "<">>,
    <<" ", "\t", "<", "b", "r", ">", "\r", "\n", "4", "8", "2", "9", "1", "3", " ", "<", "a", " ", "h", "r", "e", "f">> }

MaxMarkupFrags == 4

MarkupTexts == Concats(MarkupVocab, MaxMarkupFrags) \cup SampleMarkup

(***************************************************************************)
(* The calls                                                               *)
(***************************************************************************)
extractorVars == <<op, pc, vin, vok, vreason, pin, pout,
                   subject, body, arg, src, norm, tier, idx, tried, ret, result, calls,
                   ntext, nclean, ntwice>>

bgVars == <<storage, alarm, tasks, now, notified, hist>>

vars == <<extractorVars, bgVars>>

valVars == <<vin, vok, vreason>>

resVars == <<pin, pout>>

emailVars == <<subject, body, result, calls>>

runVars == <<arg, src, norm, tier, idx, tried, ret>>

normVars == <<ntext, nclean, ntwice>>

Init ==
    /\ op = "idle"
    /\ pc = "idle"
    /\ vin = Null
    /\ vok = FALSE
    /\ vreason = "null"
    /\ pin = <<>>
    /\ pout = NoCode
    /\ subject = Null
    /\ body = Null
    /\ arg = Null
    /\ src = "none"
    /\ norm = <<>>
    /\ tier = 0
    /\ idx = 0
    /\ tried = <<>>
    /\ ret = NoResult
    /\ result = NoResult
    /\ calls = <<>>
    /\ ntext = <<>>
    /\ nclean = <<>>
    /\ ntwice = <<>>
    /\ storage = <<>>
    /\ alarm = FALSE
    /\ tasks = <<>>
    /\ now = 1
    /\ notified = <<>>
    /\ hist = [loggedOut |-> FALSE, expired |-> FALSE, lastWrite |-> <<>>]

\* isValidOTP(code) and getValidationFailureReason(code) on one argument
Validate ==
    /\ op = "idle"
    /\ \E code \in CodeValues :
          /\ vin' = code
          /\ vok' = isValidOTP(code)
          /\ vreason' = getValidationFailureReason(code)
    /\ op' = "isValidOTP"
    /\ pc' = "done"
    /\ UNCHANGED <<resVars, emailVars, runVars, normVars, bgVars>>

\* processCode(codeString) on one raw candidate
Resolve ==
    /\ op = "idle"
    /\ \E codeString \in CodeStrings :
          /\ pin' = codeString
          /\ pout' = processCode(codeString)
    /\ op' = "processCode"
    /\ pc' = "done"
    /\ UNCHANGED <<valVars, emailVars, runVars, normVars, bgVars>>

\* cleanText(text) on one text, and on its own result
Normalize ==
    /\ op = "idle"
    /\ \E text \in MarkupTexts :
          /\ ntext' = text
          /\ nclean' = cleanText(text)
          /\ ntwice' = cleanText(cleanText(text))
    /\ op' = "cleanText"
    /\ pc' = "done"
    /\ UNCHANGED <<valVars, resVars, emailVars, runVars, bgVars>>

\* a call of extractOTP(text)
CallExtractOTP ==
    /\ op = "idle"
    /\ \E t \in TextValues : arg' = t
    /\ op' = "extractOTP"
    /\ pc' = "entry"
    /\ src' = "arg"
    /\ UNCHANGED <<valVars, resVars, emailVars, norm, tier, idx, tried, ret, normVars, bgVars>>

\* a call of extractOTPFromEmail(subject, body)
CallExtractOTPFromEmail ==
    /\ op = "idle"
    /\ \E s \in EmailValues, b \in EmailValues : subject' = s /\ body' = b
    /\ op' = "extractOTPFromEmail"
    /\ pc' = "subject"
    /\ UNCHANGED <<valVars, resVars, runVars, result, calls, normVars, bgVars>>

\* extractOTPFromEmail without the subject branch
TrySubject_Skipped ==
    /\ pc = "subject"
    /\ pc' = "body"
    /\ UNCHANGED <<op, valVars, resVars, emailVars, runVars, normVars, bgVars>>

\* extractOTPFromEmail: if (subject) { const subjectResult = extractOTP(subject);
TrySubject ==
    /\ pc = "subject"
    /\ IF ~Falsy(subject)
       THEN /\ arg' = subject
            /\ src' = "subject"
            /\ calls' = Append(calls, "subject")
            /\ pc' = "entry"
       ELSE /\ pc' = "body"
            /\ UNCHANGED <<arg, src, calls>>
    /\ UNCHANGED <<op, valVars, resVars, subject, body, result, norm, tier, idx, tried, ret, normVars, bgVars>>

\* extractOTPFromEmail: if (body) { const bodyResult = extractOTP(body); ...
\* return null
TryBody ==
    /\ pc = "body"
    /\ IF ~Falsy(body)
       THEN /\ arg' = body
            /\ src' = "body"
            /\ calls' = Append(calls, "body")
            /\ pc' = "entry"
            /\ UNCHANGED result
       ELSE /\ result' = NoResult
            /\ pc' = "done"
            /\ UNCHANGED <<arg, src, calls>>
    /\ UNCHANGED <<op, valVars, resVars, subject, body, norm, tier, idx, tried, ret, normVars, bgVars>>

\* extractOTP: the argument check, cleanText and the context gate
Enter ==
    /\ pc = "entry"
    /\ tried' = <<>>
    /\ IF Falsy(arg) \/ arg.k # "string"
       THEN /\ ret' = NoResult
            /\ pc' = "return"
            /\ UNCHANGED <<norm, tier, idx>>
       ELSE /\ norm' = cleanText(arg.s)
            /\ IF ~hasVerificationContext(norm')
               THEN /\ ret' = NoResult
                    /\ pc' = "return"
                    /\ UNCHANGED <<tier, idx>>
               ELSE /\ pc' = "tier"
                    /\ tier' = 1
                    /\ idx' = 1
                    /\ UNCHANGED ret
    /\ UNCHANGED <<op, valVars, resVars, emailVars, arg, src, normVars, bgVars>>

\* the cascade stepping over every second pattern of a tier
TierStep_SkipsPattern(t) ==
    /\ pc = "tier"
    /\ tier = t
    /\ tried' = Append(tried, <<t, idx>>)
    /\ LET code == FirstAccepted(Candidates(t, idx, norm))
       IN  IF code # NoCode
           THEN /\ ret' = Found(code, TierConfidence[t])
                /\ pc' = "return"
                /\ UNCHANGED <<tier, idx>>
           ELSE IF idx < TierSize[t]
           THEN /\ idx' = Min(idx + 2, TierSize[t])
                /\ UNCHANGED <<pc, tier, ret>>
           ELSE IF t < 7
           THEN /\ tier' = t + 1
                /\ idx' = 1
                /\ UNCHANGED <<pc, ret>>
           ELSE /\ ret' = NoResult
                /\ pc' = "return"
                /\ UNCHANGED <<tier, idx>>
    /\ UNCHANGED <<op, valVars, resVars, emailVars, arg, src, norm, normVars, bgVars>>

\* extractOTP: one pattern of tier t is matched against clean and its
\* candidates go through processCode; the first accepted code is returned
\* with the tier's confidence, otherwise the next pattern or tier follows
TierStep(t) ==
    /\ pc = "tier"
    /\ tier = t
    /\ tried' = Append(tried, <<t, idx>>)
    /\ LET code == FirstAccepted(Candidates(t, idx, norm))
       IN  IF code # NoCode
           THEN /\ ret' = Found(code, TierConfidence[t])
                /\ pc' = "return"
                /\ UNCHANGED <<tier, idx>>
           ELSE IF idx < TierSize[t]
           THEN /\ idx' = idx + 1
                /\ UNCHANGED <<pc, tier, ret>>
           ELSE IF t < 7
           THEN /\ tier' = t + 1
                /\ idx' = 1
                /\ UNCHANGED <<pc, ret>>
           ELSE /\ ret' = NoResult
                /\ pc' = "return"
                /\ UNCHANGED <<tier, idx>>
    /\ UNCHANGED <<op, valVars, resVars, emailVars, arg, src, norm, normVars, bgVars>>

Tier1 == TierStep(1)

Tier2 == TierStep(2)

Tier3 == TierStep(3)

Tier4 == TierStep(4)

Tier5 == TierStep(5)

Tier6 == TierStep(6)

Tier7 == TierStep(7)

\* extractOTP(text) returns to its caller
ReturnText ==
    /\ pc = "return"
    /\ src = "arg"
    /\ result' = ret
    /\ pc' = "done"
    /\ UNCHANGED <<op, valVars, resVars, subject, body, calls, runVars, normVars, bgVars>>

\* extractOTPFromEmail going on to the body whatever the subject gave
ReturnSubject_FallsThrough ==
    /\ pc = "return"
    /\ src = "subject"
    /\ pc' = "body"
    /\ UNCHANGED <<op, valVars, resVars, emailVars, runVars, normVars, bgVars>>

\* extractOTPFromEmail: if (subjectResult) return { ...subjectResult, source: 'subject' }
ReturnSubject ==
    /\ pc = "return"
    /\ src = "subject"
    /\ IF ret # NoResult
       THEN /\ result' = [ret EXCEPT !.source = "subject"]
            /\ pc' = "done"
       ELSE /\ pc' = "body"
            /\ UNCHANGED result
    /\ UNCHANGED <<op, valVars, resVars, subject, body, calls, runVars, normVars, bgVars>>

\* extractOTPFromEmail: if (bodyResult) return { ...bodyResult, source: 'body' }
\* ... return null
ReturnBody ==
    /\ pc = "return"
    /\ src = "body"
    /\ IF ret # NoResult
       THEN result' = [ret EXCEPT !.source = "body"]
       ELSE result' = NoResult
    /\ pc' = "done"
    /\ UNCHANGED <<op, valVars, resVars, subject, body, calls, runVars, normVars, bgVars>>

Next ==
    \/ Validate
    \/ Resolve
    \/ Normalize
    \/ CallExtractOTP
    \/ CallExtractOTPFromEmail
    \/ TrySubject
    \/ TryBody
    \/ Enter
    \/ Tier1
    \/ Tier2
    \/ Tier3
    \/ Tier4
    \/ Tier5
    \/ Tier6
    \/ Tier7
    \/ ReturnText
    \/ ReturnSubject
    \/ ReturnBody

Spec == Init /\ [][Next]_vars
(***************************************************************************)
(* The properties                                                          *)
(***************************************************************************)
\* v is a string that is not empty
IsText(v) == v.k = "string" /\ v.s # <<>>

\* the patterns of the cascade, <<tier, pattern>>, in the order of the source
RECURSIVE OrderFrom(_, _)
OrderFrom(t, k) ==
    IF t > 7 THEN <<>>
    ELSE IF k > TierSize[t] THEN OrderFrom(t + 1, 1)
    ELSE << <<t, k>> >> \o OrderFrom(t, k + 1)

CascadeOrder == OrderFrom(1, 1)

\* the code the resolver accepts among the candidates of the j-th pattern
Survivor(s, j) == FirstAccepted(Candidates(CascadeOrder[j][1], CascadeOrder[j][2], s))

\* the first pattern of the cascade with an accepted candidate, 0 for none
FirstSurviving(s) ==
    LET js == {j \in 1..Len(CascadeOrder) : Survivor(s, j) # NoCode}
    IN  IF js = {} THEN 0 ELSE Least(js)

\* s holds none of the verification keywords, in any case of letters
NoKeyword(s) ==
    \A k \in 1..Len(VERIFICATION_KEYWORDS) :
        ~Includes(toLowerCase(s), VERIFICATION_KEYWORDS[k])

\* what extractOTP is to return for the value v: nothing for a value that is
\* not a string with a verification keyword, else the first surviving
\* candidate with its tier's confidence
Extracted(v) ==
    IF ~IsText(v) \/ NoKeyword(cleanText(v.s))
    THEN NoResult
    ELSE LET j == FirstSurviving(cleanText(v.s))
         IN  IF j = 0
             THEN NoResult
             ELSE Found(Survivor(cleanText(v.s), j), TierConfidence[CascadeOrder[j][1]])

\* C1: whenever extractOTPFromEmail (or extractOTP, whose result it tags)
\* returns a result, the code has 4 to 8 characters, all of them A-Z or 0-9,
\* and isValidOTP accepts it
C1_EmittedCodeIsValid ==
    (op \in {"extractOTP", "extractOTPFromEmail"} /\ pc = "done" /\ result # NoResult) =>
        /\ Len(result.code) >= 4
        /\ Len(result.code) <= 8
        /\ \A i \in 1..Len(result.code) :
              result.code[i] \in UpperSet \/ result.code[i] \in Digits
        /\ isValidOTP(Str(result.code))

\* extractOTPFromEmail returned a code that it took from the body
C1_Witness ==
    /\ op = "extractOTPFromEmail"
    /\ pc = "done"
    /\ result # NoResult
    /\ result.source = "body"

\* C2: for every argument, a string, the empty string or another value,
\* getValidationFailureReason reports no failure reason exactly when
\* isValidOTP returns true
C2_ReasonAgreesWithPredicate ==
    op = "isValidOTP" => ((vreason = "null") <=> vok)

\* both entry points accept a string
C2_Witness ==
    op = "isValidOTP" /\ IsText(vin) /\ vok /\ vreason = "null"

\* the rules of the validator in their order, on the cleaned code
RuleViolated(r, cleaned) ==
    CASE r = 1 -> Len(cleaned) < 4 \/ Len(cleaned) > 8
      [] r = 2 -> ~IsUpperAlnum(cleaned)
      [] r = 3 -> isAllZeros(cleaned)
      [] r = 4 -> isSequential(cleaned)
      [] r = 5 -> isRepetitive(cleaned)
      [] r = 6 -> IsAllDigits(cleaned) /\ isDatePattern(cleaned)
      [] r = 7 -> IsAllDigits(cleaned) /\ isYearPattern(cleaned)
      [] r = 8 -> ~isValidAlphanumeric(cleaned)
      [] r = 9 -> isCSSValue(cleaned)
      [] r = 10 -> isLikelyColorCode(cleaned)

\* the reasons that name each rule
RuleReasons == <<
    {"Too short (min 4 chars)", "Too long (max 8 chars)"},
    {"Not alphanumeric"},
    {"All zeros"},
    {"Sequential pattern"},
    {"Repetitive pattern"},
    {"Date pattern"},
    {"Year pattern"},
    {"Invalid alphanumeric mix"},
    {"CSS value"},
    {"Likely color code"} >>

\* C3: for every code (a string that is not empty) that isValidOTP rejects,
\* getValidationFailureReason names the lowest-numbered rule the code
\* violates, in the order length, alphanumeric, all zeros, sequential,
\* repeated character, date, year, letters without a digit, CSS length, hex
\* colour
C3_ReasonIsFirstViolatedRule ==
    (op = "isValidOTP" /\ IsText(vin) /\ ~vok) =>
        LET cleaned == CleanedCode(vin.s)
            violated == {r \in 1..10 : RuleViolated(r, cleaned)}
        IN  /\ violated # {}
            /\ vreason \in RuleReasons[Least(violated)]

\* 000000 violates the all-zeros, the repetitive and the colour rule and is
\* reported under the first of them
C3_Witness ==
    /\ op = "isValidOTP"
    /\ vin = Str(<<"0", "0", "0", "0", "0", "0">>)
    /\ ~vok
    /\ vreason = "All zeros"
    /\ RuleViolated(5, vin.s)
    /\ RuleViolated(10, vin.s)

\* some pattern of tier t matches s
MatchesTier(t, s) == \E k \in 1..TierSize[t] : Candidates(t, k, s) # <<>>

\* the match of some pattern of tier t in s gives a candidate that the
\* resolver accepts
SurvivesTier(t, s) ==
    \E k \in 1..TierSize[t] : FirstAccepted(Candidates(t, k, s)) # NoCode

\* C4, as amended: if the match of some Tier-1 pattern gives a candidate that
\* the resolver accepts, extractOTP reports confidence "high", never "low",
\* also when a Tier-7 pattern matches the text
C4_Tier1SurvivorIsHigh ==
    (pc = "return" /\ IsText(arg) /\ ret.confidence # "high") =>
        ~(MatchesTier(7, cleanText(arg.s)) /\ SurvivesTier(1, cleanText(arg.s)))

\* a text with a label next to its code and the same code as a bare token
C4_Witness ==
    /\ pc = "return"
    /\ IsText(arg)
    /\ SurvivesTier(1, cleanText(arg.s))
    /\ MatchesTier(7, cleanText(arg.s))
    /\ ret.confidence = "high"

\* C4, as stated: if the text matches both a Tier-1 pattern and a Tier-7
\* pattern, the confidence that extractOTP reports with its code is "high",
\* never "low"
C4_AsStated ==
    (pc = "return" /\ IsText(arg) /\ ret # NoResult
        /\ MatchesTier(1, cleanText(arg.s)) /\ MatchesTier(7, cleanText(arg.s))) =>
        ret.confidence = "high"

\* s holds a token of 4 to 8 characters that isValidOTP accepts
HasValidCode(s) ==
    \E i \in 1..Len(s), n \in 4..8 :
        /\ i + n - 1 <= Len(s)
        /\ (i = 1 \/ ~IsWord(s[i - 1]))
        /\ (i + n - 1 = Len(s) \/ ~IsWord(s[i + n]))
        /\ isValidOTP(Str(SubSeq(s, i, i + n - 1)))

\* C5, as amended: if extractOTP finds a code in the subject and finds one in
\* the body, the result of extractOTPFromEmail has source "subject" and
\* carries the code of the subject
C5_SubjectPrecedence ==
    (op = "extractOTPFromEmail" /\ pc = "done"
        /\ Extracted(subject) # NoResult /\ Extracted(body) # NoResult) =>
        /\ result.source = "subject"
        /\ result.code = Extracted(subject).code

\* subject and body give different codes and the subject's is returned
C5_Witness ==
    /\ op = "extractOTPFromEmail"
    /\ pc = "done"
    /\ Extracted(subject) # NoResult
    /\ Extracted(body) # NoResult
    /\ Extracted(subject).code # Extracted(body).code
    /\ result.source = "subject"

\* C5, as stated: if both the subject and the body contain a valid code, the
\* result that extractOTPFromEmail returns has source "subject"
C5_AsStated ==
    (op = "extractOTPFromEmail" /\ pc = "done" /\ result # NoResult
        /\ IsText(subject) /\ HasValidCode(subject.s)
        /\ IsText(body) /\ HasValidCode(body.s)) =>
        result.source = "subject"

\* C6: extractOTPFromEmail returns the result of extractOTP(subject) with
\* source "subject" when that result is not empty, and extractOTP is then
\* never called on the body; otherwise the result of extractOTP(body) with
\* source "body" when that is not empty; otherwise nothing
C6_SourceSelection ==
    op = "extractOTPFromEmail" =>
        /\ (\E i \in 1..Len(calls) : calls[i] = "body") => Extracted(subject) = NoResult
        /\ pc = "done" =>
              LET fromSubject == Extracted(subject)
                  fromBody == Extracted(body)
              IN  result = IF fromSubject # NoResult
                           THEN [fromSubject EXCEPT !.source = "subject"]
                           ELSE IF fromBody # NoResult
                           THEN [fromBody EXCEPT !.source = "body"]
                           ELSE NoResult

\* the subject gave a code, the body holds one as well and was not examined
C6_Witness ==
    /\ op = "extractOTPFromEmail"
    /\ pc = "done"
    /\ Extracted(subject) # NoResult
    /\ Extracted(body) # NoResult
    /\ calls = <<"subject">>
    /\ result = [Extracted(subject) EXCEPT !.source = "subject"]

\* C7: if the normalized text holds none of the verification keywords,
\* extractOTP returns nothing and tries no pattern, whatever numbers the
\* text holds, a 6-digit number that isValidOTP accepts included
C7_GateBlocks ==
    (pc = "return" /\ IsText(arg) /\ NoKeyword(cleanText(arg.s))) =>
        /\ ret = NoResult
        /\ tried = <<>>

\* a text without keyword whose 6-digit number passes isValidOTP and is a
\* candidate of tier 7
C7_Witness ==
    /\ pc = "return"
    /\ arg = Str(<<"I", "n", "v", "o", "i", "c", "e", " ", "4", "8", "2", "9", "1", "3", " ", "a", "t", "t", "a", "c", "h", "e", "d">>)
    /\ NoKeyword(cleanText(arg.s))
    /\ isValidOTP(Str(<<"4", "8", "2", "9", "1", "3">>))
    /\ MatchesTier(7, cleanText(arg.s))
    /\ ret = NoResult

\* the confidence of each tier: 1 to 3 high, 4 to 6 medium, 7 low
ConfidenceOfTier(t) == IF t <= 3 THEN "high" ELSE IF t <= 6 THEN "medium" ELSE "low"

\* high above medium above low
ConfidenceRank(c) == IF c = "high" THEN 3 ELSE IF c = "medium" THEN 2 ELSE 1

C9_ResolverCases ==
    op = "processCode" =>
        LET digits == SelectSeq(pin, IsDigit)
            alnum == toUpperCase(SelectSeq(pin, IsAlnum))
        IN  pout = IF Len(digits) \in 4..8 /\ isValidOTP(Str(digits)) THEN digits
                   ELSE IF Len(alnum) \in 4..8 /\ isValidOTP(Str(alnum)) THEN alnum
                   ELSE NoCode

\* processCode returned the upper-case alphanumeric reading of a candidate
\* that has lower-case letters
C9_Witness ==
    /\ op = "processCode"
    /\ pout # NoCode
    /\ pout # SelectSeq(pin, IsDigit)
    /\ pout # SelectSeq(pin, IsAlnum)

\* C10: isValidOTP returns false for every string whose length, once its
\* spaces and dashes are removed, is less than 4 or more than 8
C10_LengthOutsideRangeRejected ==
    (op = "isValidOTP" /\ vin.k = "string"
        /\ Len(SelectSeq(vin.s, NotDashOrSpace)) \notin 4..8) => ~vok

\* C11: cleanText is idempotent: for every text, cleanText(cleanText(text))
\* equals cleanText(text)
C11_NormalizerIdempotent ==
    op = "cleanText" => (nclean = cleanText(ntext) /\ ntwice = nclean)

\* a text with a tag and an entity, which the first pass changes and the
\* second leaves alone
C11_Witness ==
    /\ op = "cleanText"
    /\ \E i \in 1..Len(ntext) : TagLen(ntext, i) > 0
    /\ \E i \in 1..Len(ntext) : EntityLen(ntext, i) > 0
    /\ nclean # ntext
    /\ nclean # <<>>
    /\ ntwice = nclean

\* s holds a tag: a < followed by one or more characters other than > and a >
HasTag(s) ==
    \E i, j \in 1..Len(s) :
        /\ s[i] = "<"
        /\ j > i + 1
        /\ s[j] = ">"
        /\ \A k \in (i + 1)..(j - 1) : s[k] # ">"

\* C12: for every text, the normalized text holds no HTML tag, no run of two
\* or more white space characters, and no white space at its start or end
C12_NormalizedShape ==
    op = "cleanText" =>
        /\ ~HasTag(nclean)
        /\ \A i \in 1..(Len(nclean) - 1) : ~(IsSpace(nclean[i]) /\ IsSpace(nclean[i + 1]))
        /\ nclean # <<>> => (~IsSpace(nclean[1]) /\ ~IsSpace(nclean[Len(nclean)]))

\* a text that starts with white space, holds a tag and a run of white space,
\* and is not empty once normalized
C12_Witness ==
    /\ op = "cleanText"
    /\ ntext # <<>>
    /\ IsSpace(ntext[1])
    /\ HasTag(ntext)
    /\ \E i \in 1..(Len(ntext) - 1) : IsSpace(ntext[i]) /\ IsSpace(ntext[i + 1])
    /\ nclean # <<>>

\* C13: for an absent, empty or non-string value, isValidOTP returns false,
\* extractOTP returns nothing without normalizing the value or trying a
\* pattern, and extractOTPFromEmail returns nothing when subject and body
\* are both such values; no call ends in an error
C13_MalformedInputIsNoMatch ==
    /\ (op = "isValidOTP" /\ ~IsText(vin)) => ~vok
    /\ (pc = "return" /\ ~IsText(arg)) => (ret = NoResult /\ tried = <<>>)
    /\ (op = "extractOTP" /\ pc = "done" /\ ~IsText(arg)) => result = NoResult
    /\ (op = "extractOTPFromEmail" /\ pc = "done" /\ ~IsText(subject) /\ ~IsText(body)) =>
          result = NoResult

\* extractOTPFromEmail on a number and an absent body: extractOTP was run on
\* the number and nothing is returned
C13_Witness ==
    /\ op = "extractOTPFromEmail"
    /\ pc = "done"
    /\ subject.k = "number"
    /\ body = Undefined
    /\ calls = <<"subject">>
    /\ result = NoResult

\* s[i..i+3] are four digits, each one more than the one before (up = 1) or
\* one less (up = -1)
IsRun4(s, i, up) ==
    /\ i >= 1
    /\ i + 3 <= Len(s)
    /\ \A k \in 0..3 : IsDigit(s[i + k])
    /\ \A k \in 1..3 : DigitValue(s[i + k]) = DigitValue(s[i + k - 1]) + up

\* s holds four consecutive rising or falling digits somewhere
HasRun4(s) == \E i \in 1..Len(s) : IsRun4(s, i, 1) \/ IsRun4(s, i, 0 - 1)

\* C14: isValidOTP rejects every code that holds, anywhere, four
\* consecutive digits each one greater than the one before or each one less;
\* the sequential rule fires on exactly these codes, so the listed 6-digit
\* runs add nothing to the 4-digit runs
C14_SequentialSubstring ==
    (op = "isValidOTP" /\ IsText(vin)) =>
        /\ HasRun4(vin.s) => ~vok
        /\ isSequential(CleanedCode(vin.s)) <=> HasRun4(CleanedCode(vin.s))
        /\ vreason = "Sequential pattern" => HasRun4(CleanedCode(vin.s))

\* 961234 holds the run 1234 behind other digits and is rejected for it
C14_Witness ==
    /\ op = "isValidOTP"
    /\ vin = Str(<<"9", "6", "1", "2", "3", "4">>)
    /\ ~vok
    /\ vreason = "Sequential pattern"

\* the number the two digits s[i], s[i+1] read as
PairValue(s, i) == 10 * DigitValue(s[i]) + DigitValue(s[i + 1])

\* a month 01-12, a day 01-31, the first half of a year 19xx or 20xx
IsMonth(s, i) == PairValue(s, i) \in 1..12

IsDay(s, i) == PairValue(s, i) \in 1..31

IsCentury(s, i) == PairValue(s, i) \in {19, 20}

\* the numeric code s reads as a date
DateShape(s) ==
    \/ /\ Len(s) = 6
       /\ \/ IsMonth(s, 1) /\ IsDay(s, 3)
          \/ IsDay(s, 1) /\ IsMonth(s, 3)
          \/ IsMonth(s, 3) /\ IsDay(s, 5)
    \/ /\ Len(s) = 8
       /\ \/ IsMonth(s, 1) /\ IsDay(s, 3) /\ IsCentury(s, 5)
          \/ IsDay(s, 1) /\ IsMonth(s, 3) /\ IsCentury(s, 5)
          \/ IsCentury(s, 1) /\ IsMonth(s, 5) /\ IsDay(s, 7)

\* C15: a purely numeric code is rejected by the date rule exactly when it
\* has length 6 and reads as MMDDYY, DDMMYY or YYMMDD, or has length 8 and
\* reads as MMDDYYYY, DDMMYYYY or YYYYMMDD (month 01-12, day 01-31, year
\* 19xx or 20xx); a numeric code of length 4, 5 or 7 is never rejected by it
C15_DateRule ==
    (op = "isValidOTP" /\ IsText(vin) /\ IsAllDigits(CleanedCode(vin.s))) =>
        LET cleaned == CleanedCode(vin.s)
        IN  /\ isDatePattern(cleaned) <=> DateShape(cleaned)
            /\ DateShape(cleaned) => ~vok
            /\ vreason = "Date pattern" => DateShape(cleaned)
            /\ Len(cleaned) \in {4, 5, 7} => (~isDatePattern(cleaned) /\ vreason # "Date pattern")

\* 123123 reads as 12/31/23 and is rejected as a date
C15_Witness ==
    /\ op = "isValidOTP"
    /\ vin = Str(<<"1", "2", "3", "1", "2", "3">>)
    /\ DateShape(vin.s)
    /\ ~vok
    /\ vreason = "Date pattern"

\* the number the four digits of s read as
FourDigitValue(s) ==
    1000 * DigitValue(s[1]) + 100 * DigitValue(s[2]) + 10 * DigitValue(s[3]) + DigitValue(s[4])

\* C16: a purely numeric code of length 4 is rejected by the year rule if
\* and only if its value is between 1900 and 2100, both included; a code of
\* any other length is never rejected by the year rule
C16_YearRule ==
    (op = "isValidOTP" /\ IsText(vin) /\ IsAllDigits(CleanedCode(vin.s))) =>
        LET cleaned == CleanedCode(vin.s)
            inRange == Len(cleaned) = 4 /\ FourDigitValue(cleaned) >= 1900
                           /\ FourDigitValue(cleaned) <= 2100
        IN  /\ isYearPattern(cleaned) <=> inRange
            /\ inRange => (~vok /\ vreason = "Year pattern")
            /\ vreason = "Year pattern" => inRange
            /\ vin.s = <<"1", "8", "9", "9">> => vok
            /\ vin.s = <<"2", "1", "0", "1">> => vok

\* 2100, the upper end of the range, is rejected as a year
C16_Witness ==
    /\ op = "isValidOTP"
    /\ vin = Str(<<"2", "1", "0", "0">>)
    /\ ~vok
    /\ vreason = "Year pattern"

\* the colours of the fixed list
ColourList == {
    <<"0", "0", "0", "0", "0", "0">>, <<"F", "F", "F", "F", "F", "F">>, <<"3", "3", "3", "3", "3", "3">>, <<"6", "6", "6", "6", "6", "6">>, <<"9", "9", "9", "9", "9", "9">>, <<"C", "C", "C", "C", "C", "C">>,
    <<"F", "F", "0", "0", "0", "0">>, <<"0", "0", "F", "F", "0", "0">>, <<"0", "0", "0", "0", "F", "F">>, <<"F", "F", "F", "F", "0", "0">>, <<"F", "F", "0", "0", "F", "F">>, <<"0", "0", "F", "F", "F", "F">>,
    <<"8", "0", "8", "0", "8", "0">>, <<"C", "0", "C", "0", "C", "0">>, <<"8", "0", "0", "0", "0", "0">>, <<"0", "0", "8", "0", "0", "0">>, <<"0", "0", "0", "0", "8", "0">>, <<"8", "0", "0", "0", "8", "0">> }

\* c has exactly 6 characters, all hex digits, and is one pair repeated
\* three times (which is also the shape of two alternating digits) or a
\* colour of the list
ColourShape(c) ==
    /\ Len(c) = 6
    /\ \A i \in 1..6 : c[i] \in Digits \/ c[i] \in {"A", "B", "C", "D", "E", "F"}
    /\ \/ <<c[3], c[4]>> = <<c[1], c[2]>> /\ <<c[5], c[6]>> = <<c[1], c[2]>>
       \/ c \in ColourList

C18_DigitsFormNeverCSS ==
    (op = "processCode" /\ Len(SelectSeq(pin, IsDigit)) \in 4..8) =>
        LET numericOnly == SelectSeq(pin, IsDigit)
        IN  /\ ~isCSSValue(numericOnly)
            /\ getValidationFailureReason(Str(numericOnly)) # "CSS value"
            /\ getValidationFailureReason(Str(numericOnly)) = "Likely color code" =>
                  pout # numericOnly

\* the candidate 393939 is its own digits-only form, which the colour rule
\* rejects; nothing is returned
C18_Witness ==
    /\ op = "processCode"
    /\ pin = <<"3", "9", "3", "9", "3", "9">>
    /\ SelectSeq(pin, IsDigit) = pin
    /\ getValidationFailureReason(Str(pin)) = "Likely color code"
    /\ pout = NoCode

\* C18, as stated: whenever a candidate's digits-only form has length 4 to
\* 8, that form is rejected neither by the CSS-length rule nor by the
\* hex-colour rule
C18_AsStated ==
    (op = "processCode" /\ Len(SelectSeq(pin, IsDigit)) \in 4..8) =>
        getValidationFailureReason(Str(SelectSeq(pin, IsDigit)))
            \notin {"CSS value", "Likely color code"}

\* s[i..i+n-1] is a bare token of n digits: no letter, digit or _ before or
\* after it
BareTokenAt(s, i, n) ==
    /\ i >= 1
    /\ i + n - 1 <= Len(s)
    /\ \A k \in i..(i + n - 1) : IsDigit(s[k])
    /\ i = 1 \/ ~IsWord(s[i - 1])
    /\ i + n - 1 = Len(s) \/ ~IsWord(s[i + n])

\* the places of the bare tokens of n digits of s that the resolver accepts
SurvivingTokens(s, n) ==
    {i \in 1..Len(s) : BareTokenAt(s, i, n) /\ processCode(SubSeq(s, i, i + n - 1)) # NoCode}

\* the leftmost surviving token of the first of the lengths 6, 4, 5, 8 that
\* has one, NoCode when none has
FallbackChoice(s) ==
    LET leftmost(n) == SubSeq(s, Least(SurvivingTokens(s, n)), Least(SurvivingTokens(s, n)) + n - 1)
    IN  IF SurvivingTokens(s, 6) # {} THEN processCode(leftmost(6))
        ELSE IF SurvivingTokens(s, 4) # {} THEN processCode(leftmost(4))
        ELSE IF SurvivingTokens(s, 5) # {} THEN processCode(leftmost(5))
        ELSE IF SurvivingTokens(s, 8) # {} THEN processCode(leftmost(8))
        ELSE NoCode

\* C19: when no pattern of tiers 1 to 6 gives a surviving candidate, tier 7
\* tries the bare digit tokens by length in the order 6, 4, 5, 8 and, within
\* a length, from left to right: a surviving 6-digit token is returned in
\* preference to a surviving 4-, 5- or 8-digit token before it, and the
\* confidence is low
C19_FallbackOrder ==
    (pc = "return" /\ IsText(arg) /\ ~NoKeyword(cleanText(arg.s))) =>
        LET choice == FallbackChoice(cleanText(arg.s))
        IN  \/ IF choice = NoCode
               THEN ret = NoResult
               ELSE ret.code = choice /\ ret.confidence = "low"
            \/ \E t \in 1..6 : SurvivesTier(t, cleanText(arg.s))

\* tier 7 returned a 6-digit token although a surviving 4-digit token stands
\* before it in the text
C19_Witness ==
    /\ pc = "return"
    /\ IsText(arg)
    /\ \A t \in 1..6 : ~SurvivesTier(t, norm)
    /\ ret.confidence = "low"
    /\ Len(ret.code) = 6
    /\ SurvivingTokens(norm, 4) # {}
    /\ Least(SurvivingTokens(norm, 4)) < Least(SurvivingTokens(norm, 6))

\* s[i..i+n-1] is a whole token of 4 to 8 digits that the resolver accepts
SurvivingTokenAt(s, i, n) ==
    n \in 4..8 /\ BareTokenAt(s, i, n) /\ processCode(SubSeq(s, i, i + n - 1)) # NoCode

\* the places of the surviving tokens that lie within the 400 characters
\* that follow the first occurrence of priorityPhrases[p] in s
SurvivorsAfter(s, p) ==
    LET index == indexOf(toLowerCase(s), priorityPhrases[p])
        from == index + Len(priorityPhrases[p])
    IN  IF index = 0 THEN {}
        ELSE {i \in from..Len(s) :
                 \E n \in 4..8 : SurvivingTokenAt(s, i, n) /\ i + n - 1 <= from + 399}

\* the leftmost surviving token after priorityPhrases[p]
FirstSurvivorAfter(s, p) ==
    LET i == Least(SurvivorsAfter(s, p))
        n == CHOOSE m \in 4..8 : SurvivingTokenAt(s, i, m)
    IN  SubSeq(s, i, i + n - 1)

\* C20: in tier 6 every token of 4 to 8 digits that lies within the 400
\* characters that follow the first occurrence of a priority phrase is tried
\* from left to right, and the first that survives validation is returned
\* with confidence medium; a rejected token before it does not end the scan
C20_WindowAfterPhrase ==
    (pc = "return" /\ IsText(arg) /\ ~NoKeyword(cleanText(arg.s))
        /\ \A t \in 1..5 : ~SurvivesTier(t, cleanText(arg.s))
        /\ \E p \in 1..Len(priorityPhrases) : SurvivorsAfter(cleanText(arg.s), p) # {}) =>
        /\ ret.confidence = "medium"
        /\ \E p \in 1..Len(priorityPhrases) :
              /\ SurvivorsAfter(cleanText(arg.s), p) # {}
              /\ ret.code = processCode(FirstSurvivorAfter(cleanText(arg.s), p))

\* C21: in a text with a verification keyword in which no pattern of tiers 1
\* to 6 matches, every bare token of 4 to 8 digits (7 digits as well) that
\* the validator accepts makes the fallback return one of these tokens with
\* confidence low
C21_FallbackAllLengths ==
    (pc = "return" /\ IsText(arg) /\ ~NoKeyword(cleanText(arg.s))
        /\ \A t \in 1..6 : ~MatchesTier(t, cleanText(arg.s))
        /\ \E i \in 1..Len(cleanText(arg.s)), n \in 4..8 :
              SurvivingTokenAt(cleanText(arg.s), i, n)) =>
        /\ ret.confidence = "low"
        /\ \E i \in 1..Len(cleanText(arg.s)), n \in 4..8 :
              /\ SurvivingTokenAt(cleanText(arg.s), i, n)
              /\ ret.code = SubSeq(cleanText(arg.s), i, i + n - 1)

\* the characters a pattern's capture group can hold besides digits
CaptureSeparators == {"-", " ", "\t", "\n", "\r"}

\* C24: every code that extractOTP or extractOTPFromEmail returns is made of
\* decimal digits only: the capture that gave it holds digits and separators
\* only and the code is the capture's digits, so the resolver's upper-cased
\* alphanumeric branch gives no result inside the cascade
C24_CodeIsDigitsOnly ==
    /\ (op \in {"extractOTP", "extractOTPFromEmail"} /\ pc = "done" /\ result # NoResult) =>
          IsAllDigits(result.code)
    /\ (pc = "return" /\ ret # NoResult) =>
          LET unit == tried[Len(tried)]
              cands == Candidates(unit[1], unit[2], cleanText(arg.s))
          IN  /\ IsAllDigits(ret.code)
              /\ \E i \in 1..Len(cands) :
                    /\ ret.code = Filter(cands[i], IsDigit)
                    /\ \A k \in 1..Len(cands[i]) :
                          IsDigit(cands[i][k]) \/ cands[i][k] \in CaptureSeparators

\* "Your code is A1B2C3" gives no result although the resolver accepts
\* A1B2C3 by its alphanumeric branch
C24_Witness ==
    /\ op = "extractOTP"
    /\ pc = "done"
    /\ arg = Str(<<"Y", "o", "u", "r", " ", "c", "o", "d", "e", " ", "i", "s", " ", "A", "1", "B", "2", "C", "3">>)
    /\ result = NoResult
    /\ tried = CascadeOrder
    /\ processCode(<<"A", "1", "B", "2", "C", "3">>) = <<"A", "1", "B", "2", "C", "3">>

\* code is the digits of a stretch of s that starts and ends with a digit,
\* holds digits and separators only and has no digit next to it on either
\* side
IsWholeToken(s, code) ==
    \E i \in 1..Len(s) : \E j \in i..Min(Len(s), i + 10) :
        /\ IsDigit(s[i]) /\ IsDigit(s[j])
        /\ i = 1 \/ ~IsDigit(s[i - 1])
        /\ j = Len(s) \/ ~IsDigit(s[j + 1])
        /\ \A k \in i..j : IsDigit(s[k]) \/ s[k] \in CaptureSeparators
        /\ Filter(SubSeq(s, i, j), IsDigit) = code

\* C25: a code that extractOTP returns is a whole digit token of the
\* normalized text (the digit groups joined for the formatted patterns),
\* never a proper part of a longer run of digits
C25_CodeIsWholeToken ==
    (pc = "return" /\ ret # NoResult) => IsWholeToken(cleanText(arg.s), ret.code)

(***************************************************************************)
(* The background service worker.  Its state lives in chrome.storage.local *)
(* under STATE_KEY; every handler is an async function, so the handlers    *)
(* that are running interleave at their awaits.  A task is one invocation  *)
(* of a handler, and each action below is the stretch of one task between  *)
(* two awaits that touch the storage, the identity service or Gmail.       *)
(* GET_STATE, GET_CURRENT_CODE and FILL_CODE write nothing and start       *)
(* nothing, so they are left out.                                          *)
(***************************************************************************)

\* getState: the object used while STATE_KEY is unset (null is NoCode, "null", 0)
defaultState ==
    [isAuthenticated |-> FALSE,
     currentCode |-> NoCode,
     currentCodeMessageId |-> "null",
     lastChecked |-> 0,
     autoFill |-> TRUE]

\* getState: result[STATE_KEY] || { ... }
getState(st) == IF st = <<>> THEN defaultState ELSE st[1]

\* updateState: const newState = { ...current, ...updates }
newState(current, updates) ==
    [f \in DOMAIN current \cup DOMAIN updates |->
        IF f \in DOMAIN updates THEN updates[f] ELSE current[f]]

\* the handler invocations a behaviour holds
MaxTasks == 3

\* the messages one answer of getRecentMessages holds (the code asks for 5)
MaxMessages == 2

\* the messages of the mailbox, newest first: m3 with the subject
\* "Invoice 482913 attached" and an empty body, m2 with the same subject and
\* the body "code: 583-920", m1 with the subject "Your OTP is 294817"
Mailbox == <<"m3", "m2", "m1">>

\* checkForOTP: extractOTPFromEmail(subject, body) for the message fetched
ResultOf(id) ==
    CASE id = "m1" -> [code |-> <<"2", "9", "4", "8", "1", "7">>, confidence |-> "high", source |-> "subject"]
      [] id = "m2" -> [code |-> <<"5", "8", "3", "9", "2", "0">>, confidence |-> "high", source |-> "body"]
      [] OTHER -> NoResult

\* getRecentMessages: data.messages || [], any of the mailbox's messages in
\* Gmail's order
Listings ==
    {[k \in 1..Cardinality(I) |->
         Mailbox[CHOOSE i \in I : Cardinality({j \in I : j < i}) = k - 1]] :
       I \in {J \in SUBSET (1..Len(Mailbox)) : Cardinality(J) <= Min(MaxMessages, 5)}}

\* a handler invocation at its start
NewTask(kind, at) ==
    [kind |-> kind,          \* the handler
     pc |-> at,              \* the await it stands at, "done" once it returned
     state |-> defaultState, \* checkForOTP: const state = await getState()
     cur |-> defaultState,   \* updateState: const current = await getState()
     upd |-> <<>>,           \* updateState: updates
     msgs |-> <<>>,          \* checkForOTP: messages
     i |-> 0,                \* checkForOTP: the message the loop stands at
     found |-> NoResult,     \* checkForOTP: result
     fetched |-> <<>>,       \* the ids getMessage was asked for, in order
     reqs |-> 0,             \* the Gmail requests made
     ret |-> "pending",      \* the value returned, or to return after updateState
     late |-> FALSE]         \* started after a token expiry was stored

IsCheck(kind) == kind \in {"CHECK_NOW", "alarm", "initial"}

\* the tasks that will call startOTPChecking and so start a check of their own
Starting == {t \in 1..Len(tasks) : tasks[t].kind \in {"AUTHENTICATE", "INSTALL"}
                                   /\ tasks[t].pc # "done"}

Room(n) == Len(tasks) + Cardinality(Starting) + n <= MaxTasks

\* chrome.runtime.onInstalled: the listener starts, before anything else ran
OnInstalled ==
    /\ tasks = <<>>
    /\ Room(2)
    /\ tasks' = <<NewTask("INSTALL", "token")>>
    /\ UNCHANGED <<extractorVars, storage, alarm, now, notified, hist>>

\* handleMessage: case 'AUTHENTICATE'
Authenticate ==
    /\ Room(2)
    /\ tasks' = Append(tasks, NewTask("AUTHENTICATE", "token"))
    /\ hist' = [hist EXCEPT !.loggedOut = FALSE]
    /\ UNCHANGED <<extractorVars, storage, alarm, now, notified>>

\* handleMessage: case 'LOGOUT'
Logout ==
    /\ Room(1)
    /\ tasks' = Append(tasks, NewTask("LOGOUT", "token"))
    /\ UNCHANGED <<extractorVars, storage, alarm, now, notified, hist>>

\* handleMessage: case 'CHECK_NOW'
CheckNow ==
    /\ Room(1)
    /\ tasks' = Append(tasks, NewTask("CHECK_NOW", "getState"))
    /\ UNCHANGED <<extractorVars, storage, alarm, now, notified, hist>>

\* handleMessage: case 'SET_AUTO_FILL', up to the await inside updateState
SetAutoFill ==
    /\ Room(1)
    /\ \E enabled \in BOOLEAN :
          tasks' = Append(tasks, [NewTask("SET_AUTO_FILL", "read")
                                     EXCEPT !.upd = [autoFill |-> enabled],
                                            !.ret = "success"])
    /\ UNCHANGED <<extractorVars, storage, alarm, now, notified, hist>>

\* chrome.alarms.onAlarm: the 'checkOTP' alarm fires
OnAlarm ==
    /\ alarm
    /\ Room(1)
    /\ tasks' = Append(tasks, NewTask("alarm", "getState"))
    /\ UNCHANGED <<extractorVars, storage, alarm, now, notified, hist>>

\* onInstalled: isAuthenticated() resolves, updateState is called
InstallToken(t) ==
    /\ tasks[t].kind = "INSTALL"
    /\ tasks[t].pc = "token"
    /\ \E authenticated \in BOOLEAN :
          tasks' = [tasks EXCEPT ![t].upd = [isAuthenticated |-> authenticated],
                                 ![t].ret = "installed",
                                 ![t].pc = "read"]
    /\ UNCHANGED <<extractorVars, storage, alarm, now, notified, hist>>

\* authenticate: getAuthToken(true) resolves or rejects
AuthenticateToken(t) ==
    /\ tasks[t].kind = "AUTHENTICATE"
    /\ tasks[t].pc = "token"
    /\ \E granted \in BOOLEAN :
          tasks' = IF granted
                   THEN [tasks EXCEPT ![t].upd = [isAuthenticated |-> TRUE],
                                      ![t].ret = "success",
                                      ![t].pc = "read"]
                   ELSE [tasks EXCEPT ![t].ret = "error",
                                      ![t].pc = "done"]
    /\ UNCHANGED <<extractorVars, storage, alarm, now, notified, hist>>

\* logout: the try block, whose outcome is ignored, then updateState is called
LogoutToken(t) ==
    /\ tasks[t].kind = "LOGOUT"
    /\ tasks[t].pc = "token"
    /\ tasks' = [tasks EXCEPT ![t].upd = [isAuthenticated |-> FALSE,
                                          currentCode |-> NoCode,
                                          currentCodeMessageId |-> "null"],
                              ![t].ret = "success",
                              ![t].pc = "read"]
    /\ UNCHANGED <<extractorVars, storage, alarm, now, notified, hist>>

\* checkForOTP: const state = await getState(); if (!state.isAuthenticated)
CheckGetState(t) ==
    /\ IsCheck(tasks[t].kind)
    /\ tasks[t].pc = "getState"
    /\ LET state == getState(storage)
       IN  tasks' = IF ~state.isAuthenticated
                    THEN [tasks EXCEPT ![t].state = state,
                                       ![t].late = hist.expired,
                                       ![t].ret = "Not authenticated",
                                       ![t].pc = "done"]
                    ELSE [tasks EXCEPT ![t].state = state,
                                       ![t].late = hist.expired,
                                       ![t].pc = "token"]
    /\ UNCHANGED <<extractorVars, storage, alarm, now, notified, hist>>

\* checkForOTP: token = await getAuthToken(false), or its catch
CheckToken(t) ==
    /\ IsCheck(tasks[t].kind)
    /\ tasks[t].pc = "token"
    /\ \E granted \in BOOLEAN :
          tasks' = IF granted
                   THEN [tasks EXCEPT ![t].pc = "list"]
                   ELSE [tasks EXCEPT ![t].upd = [isAuthenticated |-> FALSE],
                                      ![t].ret = "Token expired",
                                      ![t].pc = "read"]
    /\ UNCHANGED <<extractorVars, storage, alarm, now, notified, hist>>

\* checkForOTP: const messages = await getRecentMessages(token, 5)
CheckList(t) ==
    /\ IsCheck(tasks[t].kind)
    /\ tasks[t].pc = "list"
    /\ \/ /\ tasks' = [tasks EXCEPT ![t].reqs = @ + 1,
                                    ![t].upd = [isAuthenticated |-> FALSE],
                                    ![t].ret = "TOKEN_EXPIRED",
                                    ![t].pc = "read"]
          /\ UNCHANGED now
       \/ /\ tasks' = [tasks EXCEPT ![t].reqs = @ + 1,
                                    ![t].ret = "Gmail API error",
                                    ![t].pc = "done"]
          /\ UNCHANGED now
       \/ \E messages \in Listings :
             IF Len(messages) = 0
             THEN /\ tasks' = [tasks EXCEPT ![t].reqs = @ + 1,
                                            ![t].upd = [lastChecked |-> now],
                                            ![t].ret = "null",
                                            ![t].pc = "read"]
                  /\ now' = now + 1
             ELSE /\ tasks' = [tasks EXCEPT ![t].reqs = @ + 1,
                                            ![t].msgs = messages,
                                            ![t].i = 1,
                                            ![t].pc = "fetch"]
                  /\ UNCHANGED now
    /\ UNCHANGED <<extractorVars, storage, alarm, notified, hist>>

\* checkForOTP: one turn of the loop, from getMessage to the call of updateState
CheckFetch(t) ==
    /\ IsCheck(tasks[t].kind)
    /\ tasks[t].pc = "fetch"
    /\ LET msg == tasks[t].msgs[tasks[t].i]
           res == ResultOf(msg)
       IN  \/ /\ tasks' = [tasks EXCEPT ![t].reqs = @ + 1,
                                        ![t].fetched = Append(@, msg),
                                        ![t].upd = [isAuthenticated |-> FALSE],
                                        ![t].ret = "TOKEN_EXPIRED",
                                        ![t].pc = "read"]
              /\ UNCHANGED now
           \/ /\ tasks' = [tasks EXCEPT ![t].reqs = @ + 1,
                                        ![t].fetched = Append(@, msg),
                                        ![t].ret = "Gmail API error",
                                        ![t].pc = "done"]
              /\ UNCHANGED now
           \/ IF res # NoResult
              THEN /\ tasks' = [tasks EXCEPT ![t].reqs = @ + 1,
                                             ![t].fetched = Append(@, msg),
                                             ![t].found = res,
                                             ![t].upd = [currentCode |-> res.code,
                                                         currentCodeMessageId |-> msg,
                                                         lastChecked |-> now],
                                             ![t].ret = "code",
                                             ![t].pc = "read"]
                   /\ now' = now + 1
              ELSE IF tasks[t].i < Len(tasks[t].msgs)
              THEN /\ tasks' = [tasks EXCEPT ![t].reqs = @ + 1,
                                             ![t].fetched = Append(@, msg),
                                             ![t].i = @ + 1]
                   /\ UNCHANGED now
              ELSE /\ tasks' = [tasks EXCEPT ![t].reqs = @ + 1,
                                             ![t].fetched = Append(@, msg),
                                             ![t].upd = [lastChecked |-> now],
                                             ![t].ret = "null",
                                             ![t].pc = "read"]
                   /\ now' = now + 1
    /\ UNCHANGED <<extractorVars, storage, alarm, notified, hist>>

\* updateState: const current = await getState()
UpdateRead(t) ==
    /\ tasks[t].pc = "read"
    /\ tasks' = [tasks EXCEPT ![t].cur = getState(storage), ![t].pc = "write"]
    /\ UNCHANGED <<extractorVars, storage, alarm, now, notified, hist>>

\* updateState: chrome.storage.local.set({ [STATE_KEY]: newState }, resolve), and
\* what the caller does once updateState has resolved: startOTPChecking,
\* stopOTPChecking, notifyContentScript, return
UpdateWrite(t) ==
    LET T == tasks[t]
        returned == [tasks EXCEPT ![t].pc = "done"]
        starts == T.kind = "AUTHENTICATE" \/ (T.kind = "INSTALL" /\ T.upd.isAuthenticated)
        hasResult == IsCheck(T.kind) /\ T.found # NoResult
        isNewCode == \/ T.msgs[T.i] # T.state.currentCodeMessageId
                     \/ T.found.code # T.state.currentCode
    IN  /\ T.pc = "write"
        /\ storage' = <<newState(T.cur, T.upd)>>
        /\ tasks' = IF starts
                    THEN Append(returned, NewTask("initial", "getState"))
                    ELSE returned
        /\ alarm' = IF starts THEN TRUE ELSE IF T.kind = "LOGOUT" THEN FALSE ELSE alarm
        /\ IF hasResult /\ isNewCode /\ T.state.autoFill
           THEN \E tab \in BOOLEAN :
                   notified' = IF tab
                               THEN Append(notified, <<T.msgs[T.i], T.found.code>>)
                               ELSE notified
           ELSE UNCHANGED notified
        /\ hist' = [loggedOut |-> IF T.kind = "LOGOUT"
                                  THEN TRUE
                                  ELSE IF IsCheck(T.kind) \/ T.kind = "SET_AUTO_FILL"
                                  THEN hist.loggedOut
                                  ELSE FALSE,
                    expired |-> IF IsCheck(T.kind) /\ "isAuthenticated" \in DOMAIN T.upd
                                THEN TRUE
                                ELSE IF T.kind = "AUTHENTICATE" THEN FALSE ELSE hist.expired,
                    lastWrite |-> newState(hist.lastWrite, T.upd)]
        /\ UNCHANGED <<extractorVars, now>>

BgNext ==
    \/ OnInstalled
    \/ Authenticate
    \/ Logout
    \/ CheckNow
    \/ SetAutoFill
    \/ OnAlarm
    \/ \E t \in 1..Len(tasks) : InstallToken(t)
    \/ \E t \in 1..Len(tasks) : AuthenticateToken(t)
    \/ \E t \in 1..Len(tasks) : LogoutToken(t)
    \/ \E t \in 1..Len(tasks) : CheckGetState(t)
    \/ \E t \in 1..Len(tasks) : CheckToken(t)
    \/ \E t \in 1..Len(tasks) : CheckList(t)
    \/ \E t \in 1..Len(tasks) : CheckFetch(t)
    \/ \E t \in 1..Len(tasks) : UpdateRead(t)
    \/ \E t \in 1..Len(tasks) : UpdateWrite(t)

BgSpec == Init /\ [][BgNext]_vars

(***************************************************************************)
(* The claims about the background service worker, under BgSpec.           *)
(***************************************************************************)

\* the stored state, as getState reads it
Stored == getState(storage)

\* C22: once a LOGOUT has completed, the stored state has isAuthenticated = false
\* and currentCode = null, and both stay so until the next AUTHENTICATE request,
\* whatever checkForOTP runs were in progress when the logout started or start
\* afterwards.  (hist.loggedOut holds from the return of a logout until an
\* AUTHENTICATE request is received or an earlier one stores its result.)
C22_LogoutClearsState ==
    hist.loggedOut => ~Stored.isAuthenticated /\ Stored.currentCode = NoCode

\* C23: an extracted code is held in memory only: in no reachable state is a code
\* written to chrome.storage.local.
C23_NoCodeInStorage == storage # <<>> => storage[1].currentCode = NoCode

\* C26: a given code from a given message is announced to the content script
\* (OTP_FOUND) at most once, under every interleaving of checkForOTP runs.
C26_AnnouncedOnce ==
    \A m, n \in 1..Len(notified) : notified[m] = notified[n] => m = n

\* an updateState call is between its getState and its set, or about to start
Updating == \E t \in 1..Len(tasks) : tasks[t].pc \in {"read", "write"}

\* C27: no state update is lost: once all updateState calls have completed, each
\* stored field holds the value of the last update that wrote that field.
\* (hist.lastWrite holds, for each field, the value of the latest completed
\* update naming it.)
C27_NoLostUpdate ==
    ~Updating => \A f \in DOMAIN hist.lastWrite : Stored[f] = hist.lastWrite[f]

\* checkForOTP stores isAuthenticated: false: the set of updateState after a failed
\* getAuthToken(false) or a 401 from Gmail
ExpiryWrite(t) ==
    /\ IsCheck(tasks[t].kind)
    /\ tasks[t].pc = "write"
    /\ tasks'[t].pc = "done"
    /\ "isAuthenticated" \in DOMAIN tasks[t].upd

\* C28: if silent token retrieval fails or a Gmail request answers 401 during
\* checkForOTP, the stored isAuthenticated becomes false, an error is returned and
\* currentCode and currentCodeMessageId are left unchanged; from then until
\* AUTHENTICATE succeeds again the stored isAuthenticated stays false, and every
\* checkForOTP that starts returns 'Not authenticated' without a Gmail request or
\* a state update.
C28_TokenExpiry ==
    /\ [][\A t \in 1..Len(tasks) :
             ExpiryWrite(t) =>
                /\ ~Stored'.isAuthenticated
                /\ tasks'[t].ret \in {"Token expired", "TOKEN_EXPIRED"}
                /\ Stored'.currentCode = Stored.currentCode
                /\ Stored'.currentCodeMessageId = Stored.currentCodeMessageId]_vars
    /\ [](hist.expired => ~Stored.isAuthenticated)
    /\ [](\A t \in 1..Len(tasks) :
             (tasks[t].late /\ tasks[t].pc # "getState") =>
                /\ tasks[t].pc = "done"
                /\ tasks[t].ret = "Not authenticated"
                /\ tasks[t].reqs = 0
                /\ tasks[t].upd = <<>>)

\* checkForOTP: the set of the updateState that ends a run, with a code (214-218)
\* or without one (196, 231)
FinalWrite(t) ==
    /\ IsCheck(tasks[t].kind)
    /\ tasks[t].pc = "write"
    /\ tasks'[t].pc = "done"
    /\ "lastChecked" \in DOMAIN tasks[t].upd

\* C29: checkForOTP examines the recent messages in Gmail's order and stops at the
\* first message from which a code is extracted: that code and that message's id
\* become currentCode and currentCodeMessageId, later messages are neither fetched
\* nor able to replace it, and if no message yields a code only lastChecked
\* changes.
C29_FirstMessageWithCode ==
    /\ [](\A t \in 1..Len(tasks) :
             LET T == tasks[t]
                 n == Len(T.fetched)
             IN  /\ n <= Len(T.msgs)
                 /\ T.fetched = SubSeq(T.msgs, 1, n)
                 /\ \A k \in 1..(n - 1) : ResultOf(T.fetched[k]) = NoResult
                 /\ T.found # NoResult =>
                       /\ T.i = n
                       /\ T.found = ResultOf(T.msgs[n])
                       /\ T.pc \in {"read", "write", "done"}
                 /\ (T.found = NoResult /\ "lastChecked" \in DOMAIN T.upd) =>
                       /\ (T.msgs = <<>> \/ n = Len(T.msgs))
                       /\ \A k \in 1..n : ResultOf(T.fetched[k]) = NoResult)
    /\ [][\A t \in 1..Len(tasks) :
             FinalWrite(t) =>
                IF tasks[t].found # NoResult
                THEN /\ Stored'.currentCode = tasks[t].found.code
                     /\ Stored'.currentCodeMessageId = tasks[t].msgs[tasks[t].i]
                ELSE Stored' = [Stored EXCEPT !.lastChecked = tasks[t].upd.lastChecked]]_vars
====
